---- MODULE Spec2Model ----
(***************************************************************************)
(* Model of the MITS 5.0 validation core of mits-validator-api:            *)
(* the ValidationResult aggregate (app/validators/mits/base.py), the       *)
(* orchestrator validate_mits_document (orchestrator.py) and the rule      *)
(* validators it sequences, run over bounded families of parsed element    *)
(* trees.                                                                  *)
(*                                                                         *)
(* A Python str is a record [pad, core]: core is the text without leading  *)
(* and trailing whitespace, pad says whether such whitespace surrounds it. *)
(* An element is a record [tag, has, attr, text, kids]; an element of the  *)
(* tree is identified by its path, the sequence of child indices leading   *)
(* to it from the root (Python identifies it by object identity).          *)
(***************************************************************************)
EXTENDS Integers, Sequences, FiniteSets, TLC

VARIABLES doc, pc, result, executed, returned, objs, lastOp, calls, http

vars == <<doc, pc, result, executed, returned, objs, lastOp, calls, http>>

(***************************************************************************)
(* Bounds of the model.                                                    *)
(***************************************************************************)
\* largest number of messages held by the free ValidationResult objects
MaxMsgs == 3
\* number of distinct calendar days a date text may name
MaxDay == 3
\* number of earlier calls of validate_mits_document a caller has made
MaxCalls == 2

(***************************************************************************)
(* Python strings.                                                         *)
(***************************************************************************)
S(c) == [pad |-> FALSE, core |-> c]
P(c) == [pad |-> TRUE, core |-> c]

\* str.strip()
Strip(t) == [pad |-> FALSE, core |-> t.core]

\* truthiness of a str: only the empty string is falsy
Truthy(t) == t.core # "" \/ t.pad

\* str.lower() on the names used in the documents
Lower(t) ==
  [t EXCEPT !.core = CASE @ = "Application Fee" -> "application fee"
                       [] @ = "APPLICATION FEE" -> "application fee"
                       [] @ = "Pet Fee" -> "pet fee"
                       [] @ = "SqFt" -> "sqft"
                       [] OTHER -> @]

(***************************************************************************)
(* Sequence helpers.                                                       *)
(***************************************************************************)
RECURSIVE Flatten(_)
Flatten(ss) == IF ss = <<>> THEN <<>> ELSE Head(ss) \o Flatten(Tail(ss))

Range(s) == {s[i] : i \in DOMAIN s}

\* [f(i) : i in 1..n] concatenated, f yielding sequences
FlatMap(n, F(_)) == Flatten([i \in 1..n |-> F(i)])

(***************************************************************************)
(* Element trees (xml.etree.ElementTree.Element).                          *)
(***************************************************************************)
NoAttr == [IDValue |-> S(""), InternalCode |-> S(""), Code |-> S("")]

\* element without attributes
El(tag, text, kids) ==
  [tag |-> tag, has |-> {}, attr |-> NoAttr, text |-> text, kids |-> kids]

\* element with one attribute
ElA(tag, name, value, text, kids) ==
  [tag |-> tag, has |-> {name}, attr |-> [NoAttr EXCEPT ![name] = value],
   text |-> text, kids |-> kids]

\* Element.get(name, default)
Get(e, name, default) == IF name \in e.has THEN e.attr[name] ELSE default

\* the element at path p below e
RECURSIVE At(_, _)
At(e, p) == IF p = <<>> THEN e ELSE At(e.kids[Head(p)], Tail(p))

\* paths of all elements of the subtree of e (itself at path p), in document order
RECURSIVE IterAll(_, _)
IterAll(e, p) ==
  <<p>> \o Flatten([i \in 1..Len(e.kids) |-> IterAll(e.kids[i], Append(p, i))])

\* root.iter(tag): paths of the elements tagged tag, root included, document order
Iter(root, tag) ==
  SelectSeq(IterAll(root, <<>>), LAMBDA p : At(root, p).tag = tag)

\* e.findall(tag): indices of the direct children tagged tag
FindAll(e, tag) ==
  SelectSeq([i \in 1..Len(e.kids) |-> i], LAMBDA i : e.kids[i].tag = tag)

\* e.findall(".//tag"): paths (relative to e) of the proper descendants tagged tag
FindAllDeep(e, tag) ==
  SelectSeq(Tail(IterAll(e, <<>>)), LAMBDA p : At(e, p).tag = tag)

\* e.find(tag) is not None
Has(e, tag) == FindAll(e, tag) # <<>>

\* e.find(tag), when it is not None
Find(e, tag) == e.kids[Head(FindAll(e, tag))]

\* BaseValidator.get_text
get_text(e) == Strip(e.text)

\* get_text(e.find(tag)) if e.find(tag) is not None else ""
TextOf(e, tag) == IF Has(e, tag) THEN get_text(Find(e, tag)) ELSE S("")

\* parent_map lookup: the chain of proper ancestors of the element at path p,
\* nearest first
RECURSIVE Ancestors(_)
Ancestors(p) ==
  IF p = <<>> THEN <<>>
  ELSE LET q == SubSeq(p, 1, Len(p) - 1) IN <<q>> \o Ancestors(q)

VALID_ITEM_TYPES ==
  {"ChargeOfferItem", "PetOfferItem", "ParkingOfferItem", "StorageOfferItem"}

\* [child for child in class_elem if child.tag in VALID_ITEM_TYPES]
ItemsOf(c) ==
  SelectSeq([i \in 1..Len(c.kids) |-> i], LAMBDA i : c.kids[i].tag \in VALID_ITEM_TYPES)

(***************************************************************************)
(* ValidationMessage and ValidationResult (base.py).                       *)
(***************************************************************************)
\* a message: the rule, the severity, the position of the element it is
\* about and the value its text and details name
Msg(rule, sev, at, detail) ==
  [rule_id |-> rule, severity |-> sev, at |-> at, detail |-> detail]

\* ValidationMessage.__str__: severity and details are dropped
MsgStr(m) == <<m.rule_id, m.detail, m.at>>

\* ValidationResult(valid=True)
NewResult == [valid |-> TRUE, errors |-> <<>>, warnings |-> <<>>, info |-> <<>>]

\* add_error that appends the message and leaves valid as it is
add_error_keeps_valid(r, rule, at, detail) ==
  [r EXCEPT !.errors = Append(@, Msg(rule, "error", at, detail))]

add_error(r, rule, at, detail) ==
  [r EXCEPT !.errors = Append(@, Msg(rule, "error", at, detail)),
            !.valid = FALSE]

\* add_warning that also clears valid
add_warning_clears_valid(r, rule, at, detail) ==
  [r EXCEPT !.warnings = Append(@, Msg(rule, "warning", at, detail)),
            !.valid = FALSE]

add_warning(r, rule, at, detail) ==
  [r EXCEPT !.warnings = Append(@, Msg(rule, "warning", at, detail))]

add_info(r, rule, at, detail) ==
  [r EXCEPT !.info = Append(@, Msg(rule, "info", at, detail))]

\* list.extend: the elements of m are appended to l one after the other
RECURSIVE extend(_, _)
extend(l, m) == IF m = <<>> THEN l ELSE extend(Append(l, Head(m)), Tail(m))

\* merge that puts the other result's messages before its own
merge_prepends(a, b) ==
  [valid |-> IF ~b.valid THEN FALSE ELSE a.valid,
   errors |-> extend(b.errors, a.errors),
   warnings |-> extend(b.warnings, a.warnings),
   info |-> extend(b.info, a.info)]

\* merge that takes valid from the other result
merge_takes_other_valid(a, b) ==
  [valid |-> b.valid,
   errors |-> extend(a.errors, b.errors),
   warnings |-> extend(a.warnings, b.warnings),
   info |-> extend(a.info, b.info)]

merge(a, b) ==
  [valid |-> IF ~b.valid THEN FALSE ELSE a.valid,
   errors |-> extend(a.errors, b.errors),
   warnings |-> extend(a.warnings, b.warnings),
   info |-> extend(a.info, b.info)]

to_dict(r) ==
  [valid |-> r.valid,
   errors |-> [i \in DOMAIN r.errors |-> MsgStr(r.errors[i])],
   warnings |-> [i \in DOMAIN r.warnings |-> MsgStr(r.warnings[i])],
   info |-> [i \in DOMAIN r.info |-> MsgStr(r.info[i])]]

\* a validator builds its result by a sequence of add_* calls on a fresh
\* ValidationResult; the calls are given as messages in emission order
RECURSIVE Emit(_, _)
Emit(r, ms) ==
  IF ms = <<>> THEN r
  ELSE LET m == Head(ms) IN
       Emit(CASE m.severity = "error" -> add_error(r, m.rule_id, m.at, m.detail)
              [] m.severity = "warning" -> add_warning(r, m.rule_id, m.at, m.detail)
              [] OTHER -> add_info(r, m.rule_id, m.at, m.detail),
            Tail(ms))

Err(rule, at, detail) == <<Msg(rule, "error", at, detail)>>
Warn(rule, at, detail) == <<Msg(rule, "warning", at, detail)>>
Info(rule, at, detail) == <<Msg(rule, "info", at, detail)>>

(***************************************************************************)
(* Documents.  kind is what the hardened parser makes of the text: "ok"    *)
(* (root is the parsed tree), "malformed" (ParseError), "forbidden" (a DTD *)
(* or entity construct defusedxml refuses) or "surrogate" (text that does  *)
(* not encode as UTF-8).                                                   *)
(***************************************************************************)
Parses(d) == d.kind = "ok"

(***************************************************************************)
(* xml_structure.py                                                        *)
(***************************************************************************)
\* validate_xml_wellformed without the return after the encoding error: the
\* parse that follows fails on the same text and adds a second error
validate_xml_wellformed_no_return(d) ==
  IF d.kind = "surrogate"
  THEN add_error(add_error(NewResult, "xml_encoding_utf8", <<>>, "encoding"),
                 "xml_wellformed", <<>>, "failed to parse")
  ELSE IF d.kind = "malformed"
  THEN add_error(NewResult, "xml_wellformed", <<>>, "not well-formed")
  ELSE IF ~Parses(d)
  THEN add_error(NewResult, "xml_wellformed", <<>>, "failed to parse")
  ELSE NewResult

validate_xml_wellformed(d) ==
  IF d.kind = "surrogate"
  THEN add_error(NewResult, "xml_encoding_utf8", <<>>, "encoding")
  ELSE IF d.kind = "malformed"
  THEN add_error(NewResult, "xml_wellformed", <<>>, "not well-formed")
  ELSE IF ~Parses(d)
  THEN add_error(NewResult, "xml_wellformed", <<>>, "failed to parse")
  ELSE NewResult

\* the loop comparing the IDValue attributes as written, without strip()
RECURSIVE PropertyIdLoop_untrimmed(_, _, _, _)
PropertyIdLoop_untrimmed(root, props, k, seen) ==
  IF k > Len(props) THEN <<>>
  ELSE LET id_value == Get(root.kids[props[k]], "IDValue", S("")) IN
       IF ~Truthy(id_value)
       THEN Err("property_has_id", <<props[k]>>, "")
              \o PropertyIdLoop_untrimmed(root, props, k + 1, seen)
       ELSE IF id_value \in seen
       THEN Err("property_id_unique", <<props[k]>>, id_value.core)
              \o PropertyIdLoop_untrimmed(root, props, k + 1, seen)
       ELSE PropertyIdLoop_untrimmed(root, props, k + 1, seen \cup {id_value})

\* the loop over the Property elements, from the k-th on, property_ids = seen
RECURSIVE PropertyIdLoop(_, _, _, _)
PropertyIdLoop(root, props, k, seen) ==
  IF k > Len(props) THEN <<>>
  ELSE LET id_value == Strip(Get(root.kids[props[k]], "IDValue", S(""))) IN
       IF ~Truthy(id_value)
       THEN Err("property_has_id", <<props[k]>>, "")
              \o PropertyIdLoop(root, props, k + 1, seen)
       ELSE IF id_value \in seen
       THEN Err("property_id_unique", <<props[k]>>, id_value.core)
              \o PropertyIdLoop(root, props, k + 1, seen)
       ELSE PropertyIdLoop(root, props, k + 1, seen \cup {id_value})

\* XmlStructureValidator.validate without the return after the root error
XmlStructureValidator_validate_no_return(root) ==
  Emit(NewResult,
       (IF root.tag # "PhysicalProperty"
        THEN Err("root_is_physical_property", <<>>, root.tag) ELSE <<>>)
       \o (IF FindAll(root, "Property") = <<>>
           THEN Err("property_exists", <<>>, "")
           ELSE PropertyIdLoop(root, FindAll(root, "Property"), 1, {})))

XmlStructureValidator_validate(root) ==
  Emit(NewResult,
       IF root.tag # "PhysicalProperty"
       THEN Err("root_is_physical_property", <<>>, root.tag)
       ELSE IF FindAll(root, "Property") = <<>>
       THEN Err("property_exists", <<>>, "")
       ELSE PropertyIdLoop(root, FindAll(root, "Property"), 1, {}))

(***************************************************************************)
(* section_b_fee_placement.py (imported as fee_hierarchy)                  *)
(***************************************************************************)
SUPPORTED_FEE_PARENTS == {"Property", "Building", "Floorplan", "ILS_Unit"}

\* _find_fee_parent_context(...) is not None
HasFeeParentContext(root, p) ==
  \E q \in Range(Ancestors(p)) : At(root, q).tag \in SUPPORTED_FEE_PARENTS

SectionB_validate_fee_placement(root, p) ==
  IF ~HasFeeParentContext(root, p) THEN Err("B.10", p, "") ELSE <<>>

SectionB_validate_class_structure(root, p) ==
  LET c == At(root, p)
      items == ItemsOf(c)
  IN FlatMap(Len(items), LAMBDA k :
       IF FindAll(c.kids[items[k]], "ChargeOfferAmount") = <<>>
       THEN Err("B.9", Append(p, items[k]), Get(c.kids[items[k]], "InternalCode", S("")).core)
       ELSE <<>>)

FeeHierarchyValidator_validate(root) ==
  LET classes == Iter(root, "ChargeOfferClass") IN
  Emit(NewResult,
       FlatMap(Len(classes), LAMBDA k :
         SectionB_validate_fee_placement(root, classes[k])
           \o SectionB_validate_class_structure(root, classes[k])))

(***************************************************************************)
(* identity_uniqueness.py                                                  *)
(***************************************************************************)
\* the loop of _validate_element_ids over elements (paths below the
\* Property at index pi), from the k-th on
RECURSIVE ElementIdLoop(_, _, _, _, _, _)
ElementIdLoop(root, pi, elements, rule_id, k, seen_ids) ==
  IF k > Len(elements) THEN <<>>
  ELSE LET at == <<pi>> \o elements[k]
           raw == Get(At(root, at), "IDValue", S(""))
           id_value == Strip(raw)
       IN IF ~Truthy(raw)
          THEN Err("id_no_whitespace", at, "empty")
                 \o ElementIdLoop(root, pi, elements, rule_id, k + 1, seen_ids)
          ELSE (IF raw # Strip(raw) THEN Err("id_no_whitespace", at, raw.core) ELSE <<>>)
                 \o (IF id_value \in seen_ids
                     THEN Err(rule_id, at, id_value.core)
                            \o ElementIdLoop(root, pi, elements, rule_id, k + 1, seen_ids)
                     ELSE ElementIdLoop(root, pi, elements, rule_id, k + 1,
                                        seen_ids \cup {id_value}))

validate_element_ids(root, pi, element_tag, rule_id) ==
  ElementIdLoop(root, pi, FindAllDeep(root.kids[pi], element_tag), rule_id, 1, {})

validate_property_identities(root, pi) ==
  validate_element_ids(root, pi, "Building", "building_id_unique")
    \o validate_element_ids(root, pi, "Floorplan", "floorplan_id_unique")
    \o validate_element_ids(root, pi, "ILS_Unit", "unit_id_unique")

IdentityUniquenessValidator_validate(root) ==
  LET props == FindAll(root, "Property") IN
  Emit(NewResult,
       FlatMap(Len(props), LAMBDA k : validate_property_identities(root, props[k])))

(***************************************************************************)
(* charge_class.py                                                         *)
(***************************************************************************)
VALID_CLASS_CHILDREN == VALID_ITEM_TYPES \cup {"Limits", "Description", "Name"}

\* parent.get("IDValue") or parent.get("InternalCode") or parent.get("Code")
FirstTruthyId(e) ==
  IF "IDValue" \in e.has /\ Truthy(e.attr.IDValue) THEN e.attr.IDValue
  ELSE IF "InternalCode" \in e.has /\ Truthy(e.attr.InternalCode) THEN e.attr.InternalCode
  ELSE IF "Code" \in e.has /\ Truthy(e.attr.Code) THEN e.attr.Code
  ELSE S("")

\* the string key _get_parent_key builds from the parent's tag and id
get_parent_key(root, p) ==
  IF p = <<>> THEN <<"root", S("")>>
  ELSE LET parent == At(root, SubSeq(p, 1, Len(p) - 1)) IN
       <<parent.tag, FirstTruthyId(parent)>>

\* the messages of the loop body for one class (rules D.15, D.18, D.19)
ChargeClassBody(root, p) ==
  LET c == At(root, p)
      code == Strip(Get(c, "Code", S("")))
  IN IF ~Truthy(code) THEN Err("class_has_code", p, "")
     ELSE (IF ItemsOf(c) = <<>> THEN Err("class_has_items", p, code.core) ELSE <<>>)
            \o FlatMap(Len(c.kids), LAMBDA i :
                 (IF c.kids[i].tag \notin VALID_CLASS_CHILDREN
                  THEN Warn("class_no_empty_children", Append(p, i), c.kids[i].tag)
                  ELSE <<>>)
                 \o (IF Truthy(c.kids[i].text) /\ ~Truthy(Strip(c.kids[i].text))
                     THEN Warn("class_no_empty_children", Append(p, i), "whitespace")
                     ELSE <<>>))

\* the classes that reach the grouping step (those with a non-empty Code)
GroupedClasses(root) ==
  SelectSeq(Iter(root, "ChargeOfferClass"),
            LAMBDA p : Truthy(Strip(Get(At(root, p), "Code", S("")))))

\* classes_by_parent keys in insertion order
RECURSIVE ParentKeys(_, _, _)
ParentKeys(root, classes, k) ==
  IF k > Len(classes) THEN <<>>
  ELSE LET key == get_parent_key(root, classes[k])
           rest == ParentKeys(root, classes, k + 1)
       IN <<key>> \o SelectSeq(rest, LAMBDA x : x # key)

RECURSIVE CodeUniquenessLoop(_, _, _, _)
CodeUniquenessLoop(root, classes, k, seen_codes) ==
  IF k > Len(classes) THEN <<>>
  ELSE LET code == Strip(Get(At(root, classes[k]), "Code", S(""))) IN
       IF ~Truthy(code) THEN CodeUniquenessLoop(root, classes, k + 1, seen_codes)
       ELSE IF code \in seen_codes
       THEN Err("class_code_unique_in_parent", classes[k], code.core)
              \o CodeUniquenessLoop(root, classes, k + 1, seen_codes)
       ELSE CodeUniquenessLoop(root, classes, k + 1, seen_codes \cup {code})

check_code_uniqueness(root, classes) == CodeUniquenessLoop(root, classes, 1, {})

ChargeClassValidator_validate(root) ==
  LET all == Iter(root, "ChargeOfferClass")
      grouped == GroupedClasses(root)
      keys == ParentKeys(root, grouped, 1)
  IN Emit(NewResult,
          FlatMap(Len(all), LAMBDA k : ChargeClassBody(root, all[k]))
            \o FlatMap(Len(keys), LAMBDA j :
                 check_code_uniqueness(root,
                   SelectSeq(grouped, LAMBDA p : get_parent_key(root, p) = keys[j]))))

(***************************************************************************)
(* Conversions of text to numbers, on the value texts the documents use.   *)
(***************************************************************************)
\* text.replace("\n", ",").replace("\t", ",").split(","), stripped, blanks dropped
SplitCommas(t) ==
  CASE t.core = "" -> <<>>
    [] t.core = "50.00,75.00" -> <<S("50.00"), S("75.00")>>
    [] t.core = "50.00,NaN" -> <<S("50.00"), S("NaN")>>
    [] t.core = "1,000" -> <<S("1"), S("000")>>
    [] OTHER -> <<Strip(t)>>

\* text.replace(",", " ").split()
SplitCodes(t) ==
  CASE t.core = "" -> <<>>
    [] t.core = "a,b" -> <<S("a"), S("b")>>
    [] t.core = "a b" -> <<S("a"), S("b")>>
    [] OTHER -> <<Strip(t)>>

\* decimal.Decimal(text): kind "invalid" stands for InvalidOperation;
\* exponent is as_tuple().exponent, a str for NaN and Infinity
Decimal(t) ==
  CASE t.core \in {"50.00", "10.00", "75.00", "0.00"} ->
         [kind |-> "finite", neg |-> FALSE, exponent |-> -2, gt100 |-> FALSE]
    [] t.core \in {"0", "1", "2", "+5", "000"} ->
         [kind |-> "finite", neg |-> FALSE, exponent |-> 0, gt100 |-> FALSE]
    [] t.core = "150" ->
         [kind |-> "finite", neg |-> FALSE, exponent |-> 0, gt100 |-> TRUE]
    [] t.core = "-5.00" ->
         [kind |-> "finite", neg |-> TRUE, exponent |-> -2, gt100 |-> FALSE]
    [] t.core = "-1" ->
         [kind |-> "finite", neg |-> TRUE, exponent |-> 0, gt100 |-> FALSE]
    [] t.core = "1.234" ->
         [kind |-> "finite", neg |-> FALSE, exponent |-> -3, gt100 |-> FALSE]
    [] t.core = "NaN" ->
         [kind |-> "nan", neg |-> FALSE, exponent |-> 0, gt100 |-> FALSE]
    [] t.core = "Infinity" ->
         [kind |-> "inf", neg |-> FALSE, exponent |-> 0, gt100 |-> TRUE]
    [] OTHER ->
         [kind |-> "invalid", neg |-> FALSE, exponent |-> 0, gt100 |-> FALSE]

\* int(text): ok is FALSE for ValueError
ParseInt(t) ==
  CASE t.core = "0" -> [ok |-> TRUE, val |-> 0]
    [] t.core = "1" -> [ok |-> TRUE, val |-> 1]
    [] t.core = "2" -> [ok |-> TRUE, val |-> 2]
    [] t.core = "+5" -> [ok |-> TRUE, val |-> 5]
    [] t.core = "150" -> [ok |-> TRUE, val |-> 150]
    [] t.core = "-1" -> [ok |-> TRUE, val |-> -1]
    [] OTHER -> [ok |-> FALSE, val |-> 0]

\* any(char in value for char in ["$", "EUR", "GBP", ",", " "])
HasCurrencyChars(t) == t.core \in {"$5", "1 000", "1,000", "50.00,75.00", "50.00,NaN"}

\* validate_enum(value, enum_class, ...)[0]
validate_enum(t, values) == ~Truthy(t) \/ (~t.pad /\ t.core \in values)

ChargeRequirementValues ==
  {"Included", "Mandatory", "Optional", "Situational", "Conditional"}
LifecycleValues == {"At Application", "Move-in", "During Term", "Move-out"}
PaymentFrequencyValues ==
  {"One-time", "Monthly", "Quarterly", "Annually", "Hourly", "Per-occurrence"}
RefundabilityValues == {"Non-refundable", "Refundable", "Deposit"}
RefundabilityMaxTypeValues == {"Amount", "Percentage"}
AmountBasisValues == {"Explicit", "Percentage Of", "Within Range", "Stepped", "Variable"}
TermBasisValues == {"Whole Lease", "Whole Term"}
AmountPerTypeValues == {"Item", "Applicant", "Leaseholder", "Person", "Period"}

(***************************************************************************)
(* section_e_class_limits.py (imported as class_limits)                    *)
(***************************************************************************)
validate_positive_integer(t, min_value) ==
  Truthy(t) /\ ParseInt(t).ok /\ ParseInt(t).val >= min_value

\* _validate_decimal(value, min_value=0)
validate_decimal(t) ==
  /\ Truthy(t)
  /\ ~HasCurrencyChars(t)
  /\ Decimal(t).kind \in {"finite", "inf"}
  /\ ~Decimal(t).neg

SectionE_class(root, p) ==
  LET c == At(root, p) IN
  IF ~Has(c, "Limits") THEN <<>>
  ELSE LET limits == Find(c, "Limits")
           lp == Append(p, Head(FindAll(c, "Limits")))
           codes == IF Has(limits, "AppliesTo")
                    THEN FindAll(Find(limits, "AppliesTo"), "InternalCode") ELSE <<>>
       IN (IF Has(limits, "MaximumOccurences")
              /\ ~validate_positive_integer(TextOf(limits, "MaximumOccurences"), 1)
           THEN Err("E.21", lp, TextOf(limits, "MaximumOccurences").core) ELSE <<>>)
          \o (IF Has(limits, "MaximumAmount")
                 /\ ~validate_decimal(TextOf(limits, "MaximumAmount"))
              THEN Err("E.22", lp, TextOf(limits, "MaximumAmount").core) ELSE <<>>)
          \o FlatMap(Len(codes), LAMBDA k :
               IF ~Truthy(get_text(Find(limits, "AppliesTo").kids[codes[k]]))
               THEN Err("E.24", lp, "") ELSE <<>>)

ClassLimitsValidator_validate(root) ==
  LET classes == Iter(root, "ChargeOfferClass") IN
  Emit(NewResult, FlatMap(Len(classes), LAMBDA k : SectionE_class(root, classes[k])))

(***************************************************************************)
(* offer_item_structure.py                                                 *)
(***************************************************************************)
COMMON_ITEM_CHILDREN ==
  {"Name", "Description", "Characteristics", "ItemMinimumOccurrences",
   "ItemMaximumOccurrences", "AmountBasis", "PercentageOfCode", "AmountPerType",
   "ChargeOfferAmount", "PmsItemCode", "PmsItemDescription", "PmsItemCategory"}

specialized_children(tag) ==
  CASE tag = "PetOfferItem" ->
         {"Allowed", "PetBreedorType", "MaximumSize", "MaximumWeight", "PetCare"}
    [] tag = "ParkingOfferItem" ->
         {"StructureType", "ParkingSpaceSize", "SizeType", "RegularSpace",
          "Handicapped", "Electric", "SpaceDescription"}
    [] tag = "StorageOfferItem" ->
         {"StorageType", "StorageUoM", "Height", "Width", "Length"}
    [] OTHER -> {}

validate_occurrences(item, at, code) ==
  LET min_text == TextOf(item, "ItemMinimumOccurrences")
      max_text == TextOf(item, "ItemMaximumOccurrences")
      has_min == Has(item, "ItemMinimumOccurrences") /\ Truthy(min_text) /\ ParseInt(min_text).ok
      has_max == Has(item, "ItemMaximumOccurrences") /\ Truthy(max_text) /\ ParseInt(max_text).ok
  IN (IF Has(item, "ItemMinimumOccurrences") /\ Truthy(min_text)
         /\ (~ParseInt(min_text).ok \/ ParseInt(min_text).val < 0)
      THEN Err("item_min_occurrence_valid", at, code) ELSE <<>>)
     \o (IF Has(item, "ItemMaximumOccurrences") /\ Truthy(max_text)
            /\ (~ParseInt(max_text).ok \/ ParseInt(max_text).val < 1)
         THEN Err("item_max_occurrence_valid", at, code) ELSE <<>>)
     \o (IF has_min /\ has_max /\ ParseInt(min_text).val > ParseInt(max_text).val
         THEN Err("item_occurrence_range_valid", at, code) ELSE <<>>)

check_unexpected_children(item, at, code) ==
  FlatMap(Len(item.kids), LAMBDA i :
    IF item.kids[i].tag \notin (COMMON_ITEM_CHILDREN \cup specialized_children(item.tag))
    THEN Warn("item_no_unexpected_children", Append(at, i), code) ELSE <<>>)

validate_item_structure(item, at, code) ==
  (IF ~Has(item, "Name") \/ ~Truthy(TextOf(item, "Name"))
   THEN Err("item_has_name", at, code) ELSE <<>>)
  \o (IF ~Has(item, "Description") \/ ~Truthy(TextOf(item, "Description"))
      THEN Err("item_has_description", at, code) ELSE <<>>)
  \o (IF Len(FindAll(item, "Characteristics")) # 1
      THEN Err("item_has_one_characteristics", at, code) ELSE <<>>)
  \o (IF FindAll(item, "ChargeOfferAmount") = <<>>
      THEN Err("item_has_amount_blocks", at, code) ELSE <<>>)
  \o validate_occurrences(item, at, code)
  \o check_unexpected_children(item, at, code)

\* the loop of _validate_class_items over the items of the class at p
RECURSIVE ClassItemsLoop(_, _, _, _, _)
ClassItemsLoop(root, p, items, k, internal_codes) ==
  IF k > Len(items) THEN <<>>
  ELSE LET at == Append(p, items[k])
           item == At(root, at)
           item_code == Strip(Get(item, "InternalCode", S("")))
       IN IF ~Truthy(item_code)
          THEN Err("item_has_internal_code", at, "")
                 \o ClassItemsLoop(root, p, items, k + 1, internal_codes)
          ELSE (IF item_code \in internal_codes
                THEN Err("item_internal_code_unique", at, item_code.core) ELSE <<>>)
               \o validate_item_structure(item, at, item_code.core)
               \o ClassItemsLoop(root, p, items, k + 1, internal_codes \cup {item_code})

OfferItemStructureValidator_validate(root) ==
  LET classes == Iter(root, "ChargeOfferClass") IN
  Emit(NewResult,
       FlatMap(Len(classes), LAMBDA k :
         ClassItemsLoop(root, classes[k], ItemsOf(At(root, classes[k])), 1, {})))

(***************************************************************************)
(* item_characteristics.py                                                 *)
(***************************************************************************)
\* every (class path, item index) pair of the document, in the order of
\* "for class_elem in root.iter(ChargeOfferClass): for item in items"
AllItems(root) ==
  LET classes == Iter(root, "ChargeOfferClass") IN
  FlatMap(Len(classes), LAMBDA k :
    LET items == ItemsOf(At(root, classes[k])) IN
    [j \in 1..Len(items) |-> Append(classes[k], items[j])])

collect_all_item_codes(root) ==
  {Strip(Get(At(root, p), "InternalCode", S(""))) : p \in Range(AllItems(root))}
    \ {S("")}

validate_conditional(ch, item_code, at, all_item_codes) ==
  LET scope_codes ==
        IF Has(ch, "ConditionalScope")
        THEN LET sc == Find(ch, "ConditionalScope")
                 ics == FindAll(sc, "InternalCode")
             IN FlatMap(Len(ics), LAMBDA k : SplitCodes(get_text(sc.kids[ics[k]])))
        ELSE <<>>
      referenced_codes ==
        IF Has(ch, "ConditionalInternalCode")
        THEN SplitCodes(TextOf(ch, "ConditionalInternalCode"))
        ELSE scope_codes
  IN IF referenced_codes = <<>> THEN Err("char_conditional_has_codes", at, item_code.core)
     ELSE FlatMap(Len(referenced_codes), LAMBDA k :
            IF referenced_codes[k] = item_code
            THEN Err("char_no_self_reference", at, item_code.core)
            ELSE IF referenced_codes[k] \notin all_item_codes
            THEN Err("char_conditional_code_exists", at, referenced_codes[k].core)
            ELSE <<>>)

validate_refundability(ch, item_code, at) ==
  LET refund == TextOf(ch, "Refundability") IN
  IF ~Has(ch, "Refundability") \/ ~Truthy(refund) THEN <<>>
  ELSE IF ~validate_enum(refund, RefundabilityValues)
  THEN Err("char_refundability_valid", at, refund.core)
  ELSE IF refund.core \notin {"Refundable", "Deposit"} THEN <<>>
  ELSE IF ~Has(ch, "RefundDetails") THEN Err("char_refund_details_required", at, item_code.core)
  ELSE LET rd == Find(ch, "RefundDetails")
           has_type == Has(rd, "RefundMaxType") \/ Has(ch, "RefundabilityMaxType")
           max_type == IF Has(rd, "RefundMaxType") THEN TextOf(rd, "RefundMaxType")
                       ELSE TextOf(ch, "RefundabilityMaxType")
           has_max == Has(rd, "RefundMax") \/ Has(ch, "RefundabilityMax")
           max_val == IF Has(rd, "RefundMax") THEN TextOf(rd, "RefundMax")
                      ELSE TextOf(ch, "RefundabilityMax")
       IN (IF ~has_type \/ ~Truthy(max_type)
              \/ ~validate_enum(max_type, RefundabilityMaxTypeValues)
           THEN Err("char_refund_max_type_required", at, item_code.core) ELSE <<>>)
          \o (IF ~has_max \/ ~Truthy(max_val)
                 \/ Decimal(max_val).kind \in {"invalid", "nan"} \/ Decimal(max_val).neg
              THEN Err("char_refund_max_required", at, item_code.core) ELSE <<>>)
          \o (IF Has(rd, "RefundPerType") /\ Truthy(TextOf(rd, "RefundPerType"))
                 /\ ~validate_enum(TextOf(rd, "RefundPerType"), AmountPerTypeValues)
              THEN Err("char_refund_per_type_valid", at, item_code.core) ELSE <<>>)

validate_characteristics(ch, item_code, at, all_item_codes) ==
  LET charge_req == TextOf(ch, "ChargeRequirement")
      lifecycle == TextOf(ch, "Lifecycle")
      freq == TextOf(ch, "PaymentFrequency")
      req_desc == TextOf(ch, "RequirementDescription")
  IN (IF ~Has(ch, "ChargeRequirement") \/ ~Truthy(charge_req)
      THEN Err("char_requirement_required", at, item_code.core)
      ELSE (IF ~validate_enum(charge_req, ChargeRequirementValues)
            THEN Err("char_requirement_required", at, charge_req.core) ELSE <<>>)
           \o (IF charge_req = S("Conditional")
               THEN validate_conditional(ch, item_code, at, all_item_codes) ELSE <<>>))
     \o (IF ~Has(ch, "Lifecycle") \/ ~Truthy(lifecycle)
         THEN Err("char_lifecycle_required", at, item_code.core)
         ELSE IF ~validate_enum(lifecycle, LifecycleValues)
         THEN Err("char_lifecycle_required", at, lifecycle.core) ELSE <<>>)
     \o (IF Has(ch, "PaymentFrequency") /\ Truthy(freq)
            /\ ~validate_enum(freq, PaymentFrequencyValues)
         THEN Err("char_frequency_valid", at, freq.core) ELSE <<>>)
     \o validate_refundability(ch, item_code, at)
     \o (IF Has(ch, "RequirementDescription") /\ Truthy(req_desc) /\ ~Truthy(Strip(req_desc))
         THEN Err("char_requirement_desc_nonempty", at, item_code.core) ELSE <<>>)

ItemCharacteristicsValidator_validate(root) ==
  LET items == AllItems(root) IN
  Emit(NewResult,
       FlatMap(Len(items), LAMBDA k :
         LET item == At(root, items[k]) IN
         IF ~Has(item, "Characteristics") THEN <<>>
         ELSE validate_characteristics(Find(item, "Characteristics"),
                                       Get(item, "InternalCode", S("unknown")),
                                       items[k], collect_all_item_codes(root))))

(***************************************************************************)
(* amount_basis.py                                                         *)
(***************************************************************************)
\* charge_requirement as the validators read it from Characteristics
ChargeRequirementOf(item) ==
  IF Has(item, "Characteristics")
  THEN TextOf(Find(item, "Characteristics"), "ChargeRequirement") ELSE S("")

\* the check of Included blocks without its test of Amounts
validate_included_amount_empty_percentage_only(block, item_code, at) ==
  IF Has(block, "Percentage") /\ Truthy(TextOf(block, "Percentage"))
  THEN Err("basis_included_percentage_empty", at, item_code.core) ELSE <<>>

validate_included_amount_empty(block, item_code, at) ==
  (IF Has(block, "Amounts") /\ Truthy(TextOf(block, "Amounts"))
   THEN Err("basis_included_amounts_empty", at, item_code.core) ELSE <<>>)
  \o (IF Has(block, "Percentage") /\ Truthy(TextOf(block, "Percentage"))
      THEN Err("basis_included_percentage_empty", at, item_code.core) ELSE <<>>)

\* amount_count of _validate_amount_block_for_basis
AmountCount(block) ==
  LET amounts_elems == FindAll(block, "Amounts") IN
  IF Len(amounts_elems) = 1
  THEN Len(SplitCommas(get_text(block.kids[Head(amounts_elems)])))
  ELSE Len(amounts_elems)

\* bool(amounts_text) of _validate_amount_block_for_basis
AmountsTextTruthy(block) ==
  LET amounts_elems == FindAll(block, "Amounts") IN
  \E i \in Range(amounts_elems) : Truthy(get_text(block.kids[i]))

validate_amount_block_for_basis(block, amount_basis, item_code, at, percentage_of_code) ==
  LET percentage_text == TextOf(block, "Percentage")
      amount_count == AmountCount(block)
      amounts_element_count == Len(FindAll(block, "Amounts"))
      has_amounts == AmountsTextTruthy(block)
      has_percentage == Truthy(percentage_text)
  IN CASE amount_basis = S("Explicit") ->
            (IF amount_count = 0
             THEN Err("basis_explicit_amounts_nonempty", at, item_code.core) ELSE <<>>)
            \o (IF has_percentage
                THEN Err("basis_explicit_percentage_empty", at, item_code.core) ELSE <<>>)
       [] amount_basis = S("Percentage Of") ->
            (IF ~has_percentage
             THEN Err("basis_percentage_has_value", at, item_code.core) ELSE <<>>)
            \o (IF has_amounts
                THEN Err("basis_percentage_amounts_empty", at, item_code.core) ELSE <<>>)
            \o (IF ~Truthy(percentage_of_code)
                THEN Err("basis_percentage_has_code", at, item_code.core)
                ELSE IF percentage_of_code = item_code
                THEN Err("basis_percentage_no_circular", at, item_code.core)
                ELSE <<>>)
       [] amount_basis \in {S("Within Range"), S("Range or Variable")} ->
            (IF amounts_element_count # 2
             THEN Err("basis_range_one_amount", at, item_code.core) ELSE <<>>)
       [] amount_basis = S("Stepped") ->
            (IF amount_count < 2
             THEN Err("basis_stepped_min_two", at, item_code.core) ELSE <<>>)
       [] amount_basis = S("Variable") ->
            (IF has_amounts = has_percentage
             THEN Err("basis_variable_not_both", at, item_code.core) ELSE <<>>)
       [] OTHER -> <<>>

validate_item_amount_basis(item, item_code, at) ==
  LET charge_requirement == ChargeRequirementOf(item)
      amount_basis == TextOf(item, "AmountBasis")
      amount_blocks == FindAll(item, "ChargeOfferAmount")
  IN IF charge_requirement = S("Included")
     THEN (IF Truthy(amount_basis)
           THEN Err("basis_included_empty", at, item_code.core) ELSE <<>>)
          \o FlatMap(Len(amount_blocks), LAMBDA k :
               validate_included_amount_empty(item.kids[amount_blocks[k]], item_code,
                                              Append(at, amount_blocks[k])))
     ELSE IF Truthy(amount_basis) /\ ~validate_enum(amount_basis, AmountBasisValues)
     THEN Err("basis_enum_valid", at, amount_basis.core)
     ELSE IF ~Truthy(amount_basis)
     THEN Err("item_amount_basis_required", at, item_code.core)
     ELSE FlatMap(Len(amount_blocks), LAMBDA k :
            LET block == item.kids[amount_blocks[k]]
                percentage_of_code == TextOf(block, "PercentageOfCode")
            IN (IF Truthy(percentage_of_code) /\ amount_basis # S("Percentage Of")
                THEN Err("item_percentage_code_when_needed", Append(at, amount_blocks[k]),
                         item_code.core)
                ELSE <<>>)
               \o validate_amount_block_for_basis(block, amount_basis, item_code,
                                                  Append(at, amount_blocks[k]),
                                                  percentage_of_code))

AmountBasisValidator_validate(root) ==
  LET items == AllItems(root) IN
  Emit(NewResult,
       FlatMap(Len(items), LAMBDA k :
         validate_item_amount_basis(At(root, items[k]),
                                    Get(At(root, items[k]), "InternalCode", S("unknown")),
                                    items[k])))

(***************************************************************************)
(* section_i_amount_blocks.py (imported as amount_format)                  *)
(***************************************************************************)
\* the text of calendar day d in ISO format
DateText(d) == S("2025-01-0" \o ToString(d))

\* _parse_date: the day a text in a recognized format names, 0 for None
parse_date(t) ==
  IF \E d \in 1..9 : t = DateText(d)
  THEN CHOOSE d \in 1..9 : t = DateText(d)
  ELSE 0

\* _validate_amounts raises TypeError: the exponent of NaN and Infinity is
\* a str, and the comparison "exponent < -2" is outside the try's except list
validate_amounts_raises(amounts_text) ==
  \E v \in Range(SplitCommas(amounts_text)) : Decimal(v).kind \in {"nan", "inf"}

validate_amounts(amounts_text, item_code, at) ==
  LET amount_values == SplitCommas(amounts_text) IN
  FlatMap(Len(amount_values), LAMBDA k :
    LET d == Decimal(amount_values[k]) IN
    IF d.kind = "invalid" THEN Err("I.58", at, amount_values[k].core)
    ELSE (IF d.exponent < -2 THEN Err("I.58", at, amount_values[k].core) ELSE <<>>)
         \o (IF d.neg THEN Err("I.59", at, amount_values[k].core) ELSE <<>>))

validate_percentage(percentage_text, item_code, at) ==
  LET d == Decimal(percentage_text) IN
  IF d.kind \in {"invalid", "nan"} THEN Err("I.60", at, percentage_text.core)
  ELSE (IF d.neg THEN Err("I.60", at, percentage_text.core) ELSE <<>>)
       \o (IF d.gt100 THEN Info("I.61", at, percentage_text.core) ELSE <<>>)

\* the window _validate_dates returns: <<start, end>>, or <<>> for None
DateWindow(block) ==
  LET start_earliest == TextOf(block, "StartTermEarliest")
      start_latest == TextOf(block, "StartTermLatest")
      earliest_date == parse_date(start_earliest)
      latest_date == IF Truthy(start_latest) THEN parse_date(start_latest) ELSE 0
  IN IF ~(Truthy(start_earliest) \/ Truthy(start_latest)) THEN <<>>
     ELSE IF ~Truthy(start_earliest) THEN <<>>
     ELSE IF earliest_date = 0 THEN <<>>
     ELSE <<earliest_date, IF latest_date # 0 THEN latest_date ELSE earliest_date>>

validate_dates(block, item_code, at) ==
  LET start_earliest == TextOf(block, "StartTermEarliest")
      start_latest == TextOf(block, "StartTermLatest")
      duration == TextOf(block, "Duration")
      earliest_date == parse_date(start_earliest)
      latest_date == IF Truthy(start_latest) THEN parse_date(start_latest) ELSE 0
  IN (IF Truthy(duration) /\ (~ParseInt(duration).ok \/ ParseInt(duration).val < 0)
      THEN Err("I.65", at, duration.core) ELSE <<>>)
     \o (IF ~(Truthy(start_earliest) \/ Truthy(start_latest)) THEN <<>>
         ELSE IF ~Truthy(start_earliest) THEN Err("I.64.1", at, item_code.core)
         ELSE (IF earliest_date = 0 THEN Err("I.64.2", at, start_earliest.core) ELSE <<>>)
              \o (IF Truthy(start_latest) /\ latest_date = 0
                  THEN Err("I.64.2", at, start_latest.core) ELSE <<>>)
              \o (IF earliest_date # 0 /\ latest_date # 0 /\ earliest_date > latest_date
                  THEN Err("I.63", at, item_code.core) ELSE <<>>))

validate_amount_block(block, item_code, at) ==
  LET amounts_text == TextOf(block, "Amounts")
      percentage_text == TextOf(block, "Percentage")
      term_basis == TextOf(block, "TermBasis")
  IN (IF ~Truthy(amounts_text) /\ ~Truthy(percentage_text)
      THEN Err("I.57", at, item_code.core) ELSE <<>>)
     \o (IF Truthy(amounts_text) THEN validate_amounts(amounts_text, item_code, at) ELSE <<>>)
     \o (IF Truthy(percentage_text)
         THEN validate_percentage(percentage_text, item_code, at) ELSE <<>>)
     \o (IF Has(block, "TermBasis") /\ Truthy(term_basis)
            /\ ~validate_enum(term_basis, TermBasisValues)
         THEN Err("I.62", at, term_basis.core) ELSE <<>>)
     \o validate_dates(block, item_code, at)

\* windows: sequence of <<block index, <<start, end>>>>; the pairs i < j are
\* visited in the order of the two nested loops
check_overlapping_windows(windows, item_code, at) ==
  FlatMap(Len(windows), LAMBDA i :
    FlatMap(Len(windows), LAMBDA j :
      IF j > i /\ windows[i][2][1] <= windows[j][2][2]
               /\ windows[j][2][1] <= windows[i][2][2]
      THEN Err("I.64.3", Append(Append(at, windows[i][1]), windows[j][1]), item_code.core)
      ELSE <<>>))

\* scheduled_windows of _validate_item_amount_blocks; idx counts the
\* ChargeOfferAmount blocks from 1
ScheduledWindows(item) ==
  LET amount_blocks == FindAll(item, "ChargeOfferAmount") IN
  FlatMap(Len(amount_blocks), LAMBDA idx :
    IF DateWindow(item.kids[amount_blocks[idx]]) # <<>>
    THEN << <<idx, DateWindow(item.kids[amount_blocks[idx]])>> >>
    ELSE <<>>)

validate_item_amount_blocks(item, item_code, at) ==
  LET amount_blocks == FindAll(item, "ChargeOfferAmount")
      scheduled_windows == ScheduledWindows(item)
  IN FlatMap(Len(amount_blocks), LAMBDA idx :
       validate_amount_block(item.kids[amount_blocks[idx]], item_code, Append(at, idx)))
     \o (IF Len(scheduled_windows) > 1
         THEN check_overlapping_windows(scheduled_windows, item_code, at) ELSE <<>>)

\* the validator does not return: some Amounts value makes _validate_amounts raise
AmountFormatValidator_raises(root) ==
  \E p \in Range(AllItems(root)) :
    \E b \in Range(FindAll(At(root, p), "ChargeOfferAmount")) :
      LET amounts_text == TextOf(At(root, p).kids[b], "Amounts") IN
      Truthy(amounts_text) /\ validate_amounts_raises(amounts_text)

AmountFormatValidator_validate(root) ==
  LET items == AllItems(root) IN
  Emit(NewResult,
       FlatMap(Len(items), LAMBDA k :
         validate_item_amount_blocks(At(root, items[k]),
                                     Get(At(root, items[k]), "InternalCode", S("unknown")),
                                     items[k])))

(***************************************************************************)
(* frequency_alignment.py                                                  *)
(***************************************************************************)
RECURRING_FREQUENCIES == {"Monthly", "Quarterly", "Annually"}
ONE_TIME_FREQUENCIES == {"One-time", "Per-occurrence", "Hourly"}

\* frequency as the validators read it from Characteristics/PaymentFrequency
FrequencyOf(item) ==
  IF Has(item, "Characteristics")
  THEN TextOf(Find(item, "Characteristics"), "PaymentFrequency") ELSE S("")

\* the items _collect_item_info stored under item_code, in document order;
\* the dict keeps the last
ItemsCoded(root, item_code) ==
  SelectSeq(AllItems(root),
            LAMBDA p : Strip(Get(At(root, p), "InternalCode", S(""))) = item_code)

\* percentage_of_code in item_info
InItemInfo(root, code) == Truthy(code) /\ ItemsCoded(root, code) # <<>>

\* item_info[code][0]
RefFrequency(root, code) ==
  FrequencyOf(At(root, ItemsCoded(root, code)[Len(ItemsCoded(root, code))]))

validate_item_frequency(root, at) ==
  LET item == At(root, at)
      item_code == Get(item, "InternalCode", S("unknown"))
      amount_per_type == TextOf(item, "AmountPerType")
      frequency == FrequencyOf(item)
      amount_basis == TextOf(item, "AmountBasis")
      percentage_of_code == TextOf(item, "PercentageOfCode")
      blocks == FindAll(item, "ChargeOfferAmount")
  IN (IF Has(item, "AmountPerType") /\ Truthy(amount_per_type)
      THEN (IF ~validate_enum(amount_per_type, AmountPerTypeValues)
            THEN Err("amount_per_type_enum", at, item_code.core) ELSE <<>>)
           \o (IF amount_per_type = S("Applicant")
               THEN Info("amount_per_applicant_note", at, item_code.core) ELSE <<>>)
      ELSE <<>>)
     \o (IF frequency.core \in RECURRING_FREQUENCIES /\ amount_basis = S("Percentage Of")
            /\ Truthy(percentage_of_code) /\ InItemInfo(root, percentage_of_code)
            /\ RefFrequency(root, percentage_of_code).core \in ONE_TIME_FREQUENCIES
         THEN Err("frequency_basis_coherent", at, item_code.core) ELSE <<>>)
     \o (IF frequency.core \in ONE_TIME_FREQUENCIES
            /\ \E b \in Range(blocks) : Truthy(TextOf(item.kids[b], "TermBasis"))
         THEN Info("onetime_with_term_basis", at, item_code.core) ELSE <<>>)

FrequencyAlignmentValidator_validate(root) ==
  LET items == AllItems(root) IN
  Emit(NewResult, FlatMap(Len(items), LAMBDA k : validate_item_frequency(root, items[k])))

(***************************************************************************)
(* section_k_pet_items.py, section_l_parking_items.py,                     *)
(* section_m_storage_items.py (imported as pet_validation,                 *)
(* parking_validation, storage_validation)                                 *)
(***************************************************************************)
\* "for class_elem in root.iter(ChargeOfferClass): class_elem.findall(tag)"
ItemsTagged(root, tag) ==
  SelectSeq(AllItems(root), LAMBDA p : At(root, p).tag = tag)

PetAllowedValues == {"Yes", "No"}
ParkingElectricValues == {"None", "Available"}
ParkingSpaceTypeValues == {"Available", "None"}

\* re.match of the MaximumWeight pattern, ignoring case
MatchesWeightPattern(t) == t.core \in {"50lb", "25kg", "30", "50 LB", "12.5"}

validate_pet_item(item, item_code, at) ==
  LET allowed == TextOf(item, "Allowed")
      amount_blocks == FindAll(item, "ChargeOfferAmount")
      max_weight == TextOf(item, "MaximumWeight")
      ch == Find(item, "Characteristics")
  IN (IF Has(item, "Allowed") /\ Truthy(allowed)
      THEN (IF ~validate_enum(allowed, PetAllowedValues)
            THEN Err("K.71", at, item_code.core) ELSE <<>>)
           \o (IF allowed = S("No")
               THEN FlatMap(Len(amount_blocks), LAMBDA idx :
                      (IF Truthy(TextOf(item.kids[amount_blocks[idx]], "Amounts"))
                       THEN Err("K.72", Append(at, idx), item_code.core) ELSE <<>>)
                      \o (IF Truthy(TextOf(item.kids[amount_blocks[idx]], "Percentage"))
                          THEN Err("K.72", Append(at, idx), item_code.core) ELSE <<>>))
               ELSE <<>>)
      ELSE <<>>)
     \o (IF Has(item, "MaximumWeight") /\ Truthy(max_weight)
            /\ ~MatchesWeightPattern(max_weight)
         THEN Err("K.73", at, max_weight.core) ELSE <<>>)
     \o (IF Has(item, "Characteristics") /\ Has(ch, "Refundability")
            /\ TextOf(ch, "Refundability") = S("Deposit")
         THEN (IF ~Truthy(TextOf(ch, "RefundabilityMaxType"))
               THEN Err("K.74", at, item_code.core) ELSE <<>>)
              \o (IF ~Truthy(TextOf(ch, "RefundabilityMax"))
                  THEN Err("K.74", at, item_code.core) ELSE <<>>)
         ELSE <<>>)

PetValidation_validate(root) ==
  LET items == ItemsTagged(root, "PetOfferItem") IN
  Emit(NewResult,
       FlatMap(Len(items), LAMBDA k :
         validate_pet_item(At(root, items[k]),
                           Get(At(root, items[k]), "InternalCode", S("unknown")), items[k])))

validate_parking_item(item, item_code, at) ==
  (IF Has(item, "Electric") /\ Truthy(TextOf(item, "Electric"))
      /\ ~validate_enum(TextOf(item, "Electric"), ParkingElectricValues)
   THEN Err("L.77", at, item_code.core) ELSE <<>>)
  \o (IF Has(item, "RegularSpace") /\ Truthy(TextOf(item, "RegularSpace"))
         /\ ~validate_enum(TextOf(item, "RegularSpace"), ParkingSpaceTypeValues)
      THEN Err("L.78", at, item_code.core) ELSE <<>>)
  \o (IF Has(item, "Handicapped") /\ Truthy(TextOf(item, "Handicapped"))
         /\ ~validate_enum(TextOf(item, "Handicapped"), ParkingSpaceTypeValues)
      THEN Err("L.78", at, item_code.core) ELSE <<>>)

ParkingValidation_validate(root) ==
  LET items == ItemsTagged(root, "ParkingOfferItem") IN
  Emit(NewResult,
       FlatMap(Len(items), LAMBDA k :
         validate_parking_item(At(root, items[k]),
                               Get(At(root, items[k]), "InternalCode", S("unknown")),
                               items[k])))

VALID_STORAGE_UNITS ==
  {"sqft", "sq ft", "square feet", "sqm", "sq m", "square meters", "cuft", "cu ft",
   "cubic feet", "cum", "cu m", "cubic meters", "ft", "feet", "m", "meters", "in",
   "inches"}

validate_storage_item(item, item_code, at) ==
  LET dims == <<"Height", "Width", "Length">>
      uom == Lower(TextOf(item, "StorageUoM"))
  IN FlatMap(3, LAMBDA k :
       LET dim_value == TextOf(item, dims[k]) IN
       IF Has(item, dims[k]) /\ Truthy(dim_value)
          /\ (Decimal(dim_value).kind \in {"invalid", "nan"} \/ Decimal(dim_value).neg)
       THEN Err("M.80", at, dim_value.core) ELSE <<>>)
     \o (IF Has(item, "StorageUoM") /\ Truthy(uom) /\ uom.core \notin VALID_STORAGE_UNITS
         THEN Err("M.81", at, uom.core) ELSE <<>>)

StorageValidation_validate(root) ==
  LET items == ItemsTagged(root, "StorageOfferItem") IN
  Emit(NewResult,
       FlatMap(Len(items), LAMBDA k :
         validate_storage_item(At(root, items[k]),
                               Get(At(root, items[k]), "InternalCode", S("unknown")),
                               items[k])))

(***************************************************************************)
(* cross_validation.py                                                     *)
(***************************************************************************)
\* a sequence without its repeated elements, first occurrences kept (the
\* keys of a dict in insertion order)
RECURSIVE Dedup(_)
Dedup(s) ==
  IF s = <<>> THEN <<>>
  ELSE <<Head(s)>> \o Dedup(SelectSeq(Tail(s), LAMBDA x : x # Head(s)))

\* the items _build_global_item_registry stores, in the order it visits them:
\* items of the classes below the Property children of the root, with a
\* non-empty stripped InternalCode
RegistryItems(root) ==
  LET props == FindAll(root, "Property") IN
  FlatMap(Len(props), LAMBDA k :
    LET classes == Iter(root.kids[props[k]], "ChargeOfferClass") IN
    FlatMap(Len(classes), LAMBDA c :
      LET cp == <<props[k]>> \o classes[c]
          items == ItemsOf(At(root, cp))
      IN SelectSeq([j \in 1..Len(items) |-> Append(cp, items[j])],
                   LAMBDA p : Truthy(Strip(Get(At(root, p), "InternalCode", S("")))))))

\* the registry _build_global_item_registry returns: one entry for each key,
\* in insertion order, holding what the last item stored under the key gave
build_global_item_registry(root) ==
  LET items == RegistryItems(root)
      codes == [k \in 1..Len(items) |-> Strip(Get(At(root, items[k]), "InternalCode", S("")))]
      keys == Dedup(codes)
  IN [k \in 1..Len(keys) |->
        LET at == SelectSeq([j \in 1..Len(items) |-> j], LAMBDA j : codes[j] = keys[k])
            element == items[at[Len(at)]]
        IN [key |-> keys[k],
            element |-> element,
            percentage_of_code |-> TextOf(At(root, element), "PercentageOfCode"),
            charge_requirement |-> ChargeRequirementOf(At(root, element))]]

\* the registry's keys in insertion order
RegistryKeys(registry) == [k \in 1..Len(registry) |-> registry[k].key]

\* registry[item_code]
RegistryEntry(registry, item_code) ==
  registry[CHOOSE k \in 1..Len(registry) : registry[k].key = item_code]

\* registry[item_code]["element"]: the last item stored under the key
RegistryElement(registry, item_code) == RegistryEntry(registry, item_code).element

\* registry[item_code]["percentage_of_code"]: read from the item's own children
RegistryPercentageOfCode(registry, item_code) ==
  RegistryEntry(registry, item_code).percentage_of_code

\* registry[item_code]["charge_requirement"]
RegistryChargeRequirement(registry, item_code) ==
  RegistryEntry(registry, item_code).charge_requirement

\* the walk that finds only the reference that is answered by its target
has_circular_reference_one_hop(registry, item_code, visited) ==
  /\ item_code \in Range(RegistryKeys(registry))
  /\ RegistryPercentageOfCode(registry, item_code) \in Range(RegistryKeys(registry))
  /\ RegistryPercentageOfCode(registry, RegistryPercentageOfCode(registry, item_code))
       = item_code

RECURSIVE has_circular_reference(_, _, _)
has_circular_reference(registry, item_code, visited) ==
  IF item_code \in visited THEN TRUE
  ELSE IF item_code \notin Range(RegistryKeys(registry)) THEN FALSE
  ELSE LET percentage_of_code == RegistryPercentageOfCode(registry, item_code) IN
       IF Truthy(percentage_of_code)
       THEN has_circular_reference(registry, percentage_of_code, visited \cup {item_code})
       ELSE FALSE

\* a walk in which finding the code in visited takes a further call
RECURSIVE has_circular_reference_calls_late(_, _, _)
has_circular_reference_calls_late(registry, item_code, visited) ==
  IF item_code \in visited THEN 2
  ELSE IF item_code \notin Range(RegistryKeys(registry)) THEN 1
  ELSE LET percentage_of_code == RegistryPercentageOfCode(registry, item_code) IN
       IF Truthy(percentage_of_code)
       THEN 1 + has_circular_reference_calls_late(registry, percentage_of_code,
                                                  visited \cup {item_code})
       ELSE 1

\* the number of calls of _has_circular_reference that are active at once
\* in the walk from item_code: the call itself and those nested in it
RECURSIVE has_circular_reference_calls(_, _, _)
has_circular_reference_calls(registry, item_code, visited) ==
  IF item_code \in visited THEN 1
  ELSE IF item_code \notin Range(RegistryKeys(registry)) THEN 1
  ELSE LET percentage_of_code == RegistryPercentageOfCode(registry, item_code) IN
       IF Truthy(percentage_of_code)
       THEN 1 + has_circular_reference_calls(registry, percentage_of_code,
                                             visited \cup {item_code})
       ELSE 1

\* the reference check with an error for a code the registry does not hold
validate_percentage_references_checks_existence(root) ==
  LET registry == build_global_item_registry(root)
      keys == RegistryKeys(registry)
  IN
  FlatMap(Len(keys), LAMBDA k :
    LET item_code == keys[k]
        percentage_of_code == RegistryPercentageOfCode(registry, item_code)
        at == RegistryElement(registry, item_code)
    IN IF ~Truthy(percentage_of_code) THEN <<>>
       ELSE IF percentage_of_code = item_code
       THEN Err("reference_no_self", at, item_code.core)
       ELSE IF percentage_of_code \notin Range(keys)
       THEN Err("reference_code_exists", at, percentage_of_code.core)
       ELSE (IF has_circular_reference(registry, item_code, {})
             THEN Err("reference_no_circular", at, item_code.core) ELSE <<>>)
            \o (IF RegistryChargeRequirement(registry, percentage_of_code) = S("Included")
                THEN Err("reference_not_included", at, item_code.core) ELSE <<>>))

validate_percentage_references(root) ==
  LET registry == build_global_item_registry(root)
      keys == RegistryKeys(registry)
  IN
  FlatMap(Len(keys), LAMBDA k :
    LET item_code == keys[k]
        percentage_of_code == RegistryPercentageOfCode(registry, item_code)
        at == RegistryElement(registry, item_code)
    IN IF ~Truthy(percentage_of_code) THEN <<>>
       ELSE IF percentage_of_code = item_code
       THEN Err("reference_no_self", at, item_code.core)
       ELSE IF percentage_of_code \notin Range(keys) THEN <<>>
       ELSE (IF has_circular_reference(registry, item_code, {})
             THEN Err("reference_no_circular", at, item_code.core) ELSE <<>>)
            \o (IF RegistryChargeRequirement(registry, percentage_of_code) = S("Included")
                THEN Err("reference_not_included", at, item_code.core) ELSE <<>>))

\* _validate_class_limits_application; the AppliesTo codes are a set in the
\* code, visited here in document order
validate_class_limits_application(root, p) ==
  LET c == At(root, p)
      limits == Find(c, "Limits")
      ics == IF Has(limits, "AppliesTo")
             THEN FindAll(Find(limits, "AppliesTo"), "InternalCode") ELSE <<>>
      applies_to_codes ==
        Dedup(SelectSeq([k \in 1..Len(ics) |->
                           get_text(Find(limits, "AppliesTo").kids[ics[k]])],
                        Truthy))
      item_codes_in_class ==
        {Strip(Get(c.kids[i], "InternalCode", S(""))) : i \in Range(ItemsOf(c))}
  IN FlatMap(Len(applies_to_codes), LAMBDA k :
       IF applies_to_codes[k] \notin item_codes_in_class
       THEN Warn("limit_applies_to_same_class", p, applies_to_codes[k].core) ELSE <<>>)
     \o (IF Truthy(TextOf(limits, "MaximumOccurences"))
         THEN Info("limit_occurrence_cap_runtime", p, "") ELSE <<>>)
     \o (IF Truthy(TextOf(limits, "MaximumAmount"))
         THEN Info("limit_amount_cap_runtime", p, "") ELSE <<>>)

validate_class_integrity(root, p) ==
  IF Has(At(root, p), "Limits") THEN validate_class_limits_application(root, p) ELSE <<>>

validate_included_items(root) ==
  LET items == AllItems(root) IN
  FlatMap(Len(items), LAMBDA k :
    LET item == At(root, items[k])
        ch == Find(item, "Characteristics")
    IN IF ~Has(item, "Characteristics") THEN <<>>
       ELSE IF ~Has(ch, "ChargeRequirement") THEN <<>>
       ELSE IF TextOf(ch, "ChargeRequirement") # S("Included") THEN <<>>
       ELSE IF Has(ch, "PaymentFrequency")
               /\ TextOf(ch, "PaymentFrequency").core \in {"Monthly", "Annually", "Quarterly"}
       THEN Err("included_no_recurring", items[k],
                Get(item, "InternalCode", S("unknown")).core)
       ELSE <<>>)

CrossValidation_validate(root) ==
  LET classes == Iter(root, "ChargeOfferClass") IN
  Emit(NewResult,
       FlatMap(Len(classes), LAMBDA k : validate_class_integrity(root, classes[k]))
         \o validate_percentage_references(root)
         \o validate_included_items(root))

(***************************************************************************)
(* section_q_r_s_t_final.py (imported as data_quality)                     *)
(***************************************************************************)
\* val.startswith("+")
StartsWithPlus(t) == t.core \in {"+5"}

\* any(char in val for char in [currency symbols, ",", " "])
HasInvalidNumericChars(t) == t.core \in {"$5", "1 000"}

\* some character of the text is a control character other than \n, \r, \t;
\* "Fee^G" stands for a name holding a BEL character
HasControlChars(t) == t.core = "Fee^G"

check_numeric_format(value, item_code, at) ==
  LET values == SplitCommas(value) IN
  FlatMap(Len(values), LAMBDA k :
    (IF HasInvalidNumericChars(values[k]) THEN Err("Q.99", at, values[k].core) ELSE <<>>)
    \o (IF StartsWithPlus(values[k]) THEN Err("Q.100", at, values[k].core) ELSE <<>>))

validate_numeric_hygiene(item, item_code, at) ==
  LET blocks == FindAll(item, "ChargeOfferAmount") IN
  FlatMap(Len(blocks), LAMBDA idx :
    LET block == item.kids[blocks[idx]] IN
    (IF Truthy(TextOf(block, "Amounts"))
     THEN check_numeric_format(TextOf(block, "Amounts"), item_code, Append(at, idx))
     ELSE <<>>)
    \o (IF Truthy(TextOf(block, "Percentage"))
        THEN check_numeric_format(TextOf(block, "Percentage"), item_code, Append(at, idx))
        ELSE <<>>))

check_control_characters(item, item_code, at) ==
  LET fields == <<"Name", "Description">> IN
  FlatMap(2, LAMBDA k :
    IF Has(item, fields[k]) /\ Truthy(Find(item, fields[k]).text)
       /\ HasControlChars(Find(item, fields[k]).text)
    THEN Err("Q.101", at, fields[k]) ELSE <<>>)

\* REQUIRED_TEXT_FIELDS is a set; its two fields are visited here as Name,
\* Description
validate_text_hygiene(root) ==
  LET items == AllItems(root)
      fields == <<"Name", "Description">>
  IN FlatMap(Len(items), LAMBDA k :
       LET item == At(root, items[k])
           item_code == Get(item, "InternalCode", S("unknown"))
       IN FlatMap(2, LAMBDA f :
            IF Has(item, fields[f]) /\ ~Truthy(Strip(Find(item, fields[f]).text))
            THEN Err("Q.98", items[k], fields[f]) ELSE <<>>)
          \o validate_numeric_hygiene(item, item_code, items[k])
          \o check_control_characters(item, item_code, items[k]))

validate_frequency_basis_coherence(root) ==
  LET items == AllItems(root) IN
  FlatMap(Len(items), LAMBDA k :
    LET item == At(root, items[k])
        item_code == Get(item, "InternalCode", S("unknown"))
        ch == Find(item, "Characteristics")
        freq == TextOf(ch, "PaymentFrequency")
        lifecycle == TextOf(ch, "Lifecycle")
        amount_basis == TextOf(item, "AmountBasis")
        amount_per_type == TextOf(item, "AmountPerType")
    IN IF ~Has(item, "Characteristics") THEN <<>>
       ELSE (IF freq.core \in {"Hourly", "Per-occurrence"} /\ amount_per_type = S("Period")
             THEN Err("S.106", items[k], item_code.core) ELSE <<>>)
            \o (IF freq = S("Monthly") /\ amount_basis = S("Within Range")
                THEN Warn("S.107", items[k], item_code.core) ELSE <<>>)
            \o (IF lifecycle = S("During Term") /\ ~Truthy(freq)
                THEN Err("S.108", items[k], item_code.core) ELSE <<>>))

\* the tags of the children of Characteristics, in sorted order
CharacteristicsTagOrder ==
  <<"ChargeRequirement", "ConditionalInternalCode", "ConditionalScope", "Lifecycle",
    "PaymentFrequency", "RefundDetails", "Refundability", "RefundabilityMax",
    "RefundabilityMaxType", "RequirementDescription">>

\* _build_characteristics_hash: the "tag:text" parts of the children with a
\* non-empty text, sorted by tag; <<>> is the empty string
build_characteristics_hash(item) ==
  IF ~Has(item, "Characteristics") THEN <<>>
  ELSE LET ch == Find(item, "Characteristics") IN
       FlatMap(Len(CharacteristicsTagOrder), LAMBDA t :
         LET cs == FindAll(ch, CharacteristicsTagOrder[t]) IN
         FlatMap(Len(cs), LAMBDA j :
           IF Truthy(get_text(ch.kids[cs[j]]))
           THEN << <<CharacteristicsTagOrder[t], get_text(ch.kids[cs[j]])>> >>
           ELSE <<>>))

\* name of an item as _validate_duplicates records it
DuplicateName(item) ==
  IF Has(item, "Name") THEN Lower(TextOf(item, "Name")) ELSE S("")

\* class_items[class_code]: the items of every class carrying that Code
ClassItems(root, class_code) ==
  SelectSeq(AllItems(root),
            LAMBDA p : Get(At(root, SubSeq(p, 1, Len(p) - 1)), "Code", S("unknown"))
                         = class_code)

validate_duplicates(root) ==
  LET classes == Iter(root, "ChargeOfferClass")
      class_codes == Dedup([k \in 1..Len(classes) |->
                              Get(At(root, classes[k]), "Code", S("unknown"))])
  IN FlatMap(Len(class_codes), LAMBDA c :
       LET items == ClassItems(root, class_codes[c])
           names == Dedup(SelectSeq([k \in 1..Len(items) |-> DuplicateName(At(root, items[k]))],
                                    Truthy))
           hashes == Dedup([k \in 1..Len(items) |->
                              build_characteristics_hash(At(root, items[k]))])
       IN FlatMap(Len(names), LAMBDA n :
            IF Len(SelectSeq(items, LAMBDA p : DuplicateName(At(root, p)) = names[n])) > 1
            THEN Err("T.109", <<>>, names[n].core) ELSE <<>>)
          \o FlatMap(Len(hashes), LAMBDA h :
               IF Len(SelectSeq(items, LAMBDA p :
                        build_characteristics_hash(At(root, p)) = hashes[h])) > 1
               THEN Err("T.110", <<>>, class_codes[c].core) ELSE <<>>))

DataQualityValidator_validate(root) ==
  Emit(NewResult,
       validate_text_hygiene(root)
         \o validate_frequency_basis_coherence(root)
         \o validate_duplicates(root))

(***************************************************************************)
(* Documents given to validate_mits_document, built like the documents of  *)
(* the tests (tests/validators/mits/test_end_to_end.py).  NONE as the text *)
(* of an optional child means that the child is absent.                    *)
(***************************************************************************)
NONE == "~"

Txt(tag, c) == El(tag, S(c), <<>>)

OptTxt(tag, c) == IF c = NONE THEN <<>> ELSE <<Txt(tag, c)>>

AmountBlock(amounts, percentage, poc, earliest, latest) ==
  El("ChargeOfferAmount", S(""),
     OptTxt("Amounts", amounts) \o OptTxt("Percentage", percentage)
       \o OptTxt("PercentageOfCode", poc)
       \o OptTxt("StartTermEarliest", earliest) \o OptTxt("StartTermLatest", latest))

OfferItem(tag, code, name, req, freq, basis, itemPoc, extra, blocks) ==
  ElA(tag, "InternalCode", code, S(""),
      <<Txt("Name", name), Txt("Description", "text"),
        El("Characteristics", S(""),
           <<Txt("ChargeRequirement", req), Txt("Lifecycle", "Move-in")>>
             \o OptTxt("PaymentFrequency", freq))>>
        \o OptTxt("AmountBasis", basis) \o OptTxt("PercentageOfCode", itemPoc)
        \o extra \o blocks)

ChargeOfferClass(code, items) == ElA("ChargeOfferClass", "Code", S(code), S(""), items)

Building(id, kids) == ElA("Building", "IDValue", id, S(""), kids)

Property(id, kids) == ElA("Property", "IDValue", id, S(""), kids)

Document(rootTag, kids) == [kind |-> "ok", root |-> El(rootTag, S(""), kids)]

\* a text the parser does not turn into a tree
Unparsed(kind) == [kind |-> kind, root |-> El("", S(""), <<>>)]

(***************************************************************************)
(* Family P: documents varying the root, the Property ids, the Buildings,  *)
(* the placement of the class and the one item of each class.              *)
(***************************************************************************)
ItemVariants == {"valid", "noBlocks", "nan", "included", "badRequirement", "pet"}

VariantItem(v) ==
  CASE v = "valid" ->
         OfferItem("ChargeOfferItem", S("fee"), "Fee", "Mandatory", "One-time", "Explicit",
                   NONE, <<>>, <<AmountBlock("50.00", "", NONE, NONE, NONE)>>)
    [] v = "noBlocks" ->
         OfferItem("ChargeOfferItem", S("fee"), "Fee", "Mandatory", "One-time", "Explicit",
                   NONE, <<>>, <<>>)
    [] v = "nan" ->
         OfferItem("ChargeOfferItem", S("fee"), "Fee", "Mandatory", "One-time", "Explicit",
                   NONE, <<>>, <<AmountBlock("NaN", "", NONE, NONE, NONE)>>)
    [] v = "included" ->
         OfferItem("ChargeOfferItem", S("fee"), "Fee", "Included", NONE, NONE,
                   NONE, <<>>, <<AmountBlock("", "", NONE, NONE, NONE)>>)
    [] v = "badRequirement" ->
         OfferItem("ChargeOfferItem", S("fee"), "Fee", "Sometimes", "One-time", "Explicit",
                   NONE, <<>>, <<AmountBlock("50.00", "", NONE, NONE, NONE)>>)
    [] OTHER ->
         OfferItem("PetOfferItem", S("fee"), "Fee", "Mandatory", "One-time", "Explicit",
                   NONE, <<Txt("Allowed", "No")>>,
                   <<AmountBlock("50.00", "", NONE, NONE, NONE)>>)

PropertyIdLists ==
  {<<>>, <<S("P1")>>, <<S("P1"), S("P1")>>, <<S("")>>, <<S("P1"), S("P2")>>,
   <<S("P1"), P("P1"), S("P1")>>}

BuildingIdLists == {<<>>, <<S("B1")>>, <<S("B1"), S("B1")>>, <<S("B1"), P("B2")>>}

\* the children of one Property: its Buildings, the class in the first
\* Building when there is one, else directly below the Property
PropertyKids(bids, v) ==
  LET class == ChargeOfferClass("C1", <<VariantItem(v)>>) IN
  IF bids = <<>> THEN <<class>>
  ELSE [i \in 1..Len(bids) |-> Building(bids[i], IF i = 1 THEN <<class>> ELSE <<>>)]

DocP(rootTag, pids, bids, outside, v) ==
  Document(rootTag,
           [i \in 1..Len(pids) |-> Property(pids[i], PropertyKids(bids, v))]
             \o (IF outside THEN <<ChargeOfferClass("C0", <<VariantItem(v)>>)>> ELSE <<>>))

DocsP ==
  {DocP(rootTag, pids, bids, outside, v) :
     rootTag \in {"PhysicalProperty", "Properties"}, pids \in PropertyIdLists,
     bids \in BuildingIdLists, outside \in BOOLEAN, v \in ItemVariants}
  \cup {Unparsed(k) : k \in {"malformed", "forbidden", "surrogate"}}

(***************************************************************************)
(* Family R: one class with the items A, B, C; each either priced          *)
(* explicitly or as a percentage of a target item, the PercentageOfCode    *)
(* placed in the amount block or directly below the item.  X is a code no  *)
(* item carries.                                                           *)
(***************************************************************************)
RefCodes == <<"A", "B", "C">>

RefItem(i, target, inBlock, req) ==
  IF target = NONE
  THEN OfferItem("ChargeOfferItem", S(RefCodes[i]), RefCodes[i], req,
                 IF req = "Included" THEN NONE ELSE "Monthly",
                 IF req = "Included" THEN NONE ELSE "Explicit", NONE, <<>>,
                 <<AmountBlock(IF req = "Included" THEN "" ELSE "50.00", "",
                               NONE, NONE, NONE)>>)
  ELSE OfferItem("ChargeOfferItem", S(RefCodes[i]), RefCodes[i], req,
                 IF req = "Included" THEN NONE ELSE "Monthly", "Percentage Of",
                 IF inBlock THEN NONE ELSE target, <<>>,
                 <<AmountBlock("", "10.00", IF inBlock THEN target ELSE NONE, NONE, NONE)>>)

DocR(targets, inBlock, req) ==
  Document("PhysicalProperty",
           <<Property(S("P1"),
               <<ChargeOfferClass("C1",
                   [i \in 1..3 |-> RefItem(i, targets[i], inBlock,
                                           IF i = 1 THEN req ELSE "Mandatory")])>>)>>)

DocsR ==
  {DocR(<<ta, tb, tc>>, inBlock, req) :
     ta \in {NONE, "A", "B", "C", "X"}, tb \in {NONE, "A", "C"}, tc \in {NONE, "A", "B"},
     inBlock \in BOOLEAN, req \in {"Mandatory", "Included"}}

(***************************************************************************)
(* Family W: one item with two amount blocks and their scheduling windows. *)
(***************************************************************************)
DateTexts == {NONE, "soon"} \cup {DateText(d).core : d \in 1..MaxDay}

DocW(a1, e1, l1, e2, l2) ==
  Document("PhysicalProperty",
           <<Property(S("P1"),
               <<ChargeOfferClass("C1",
                   <<OfferItem("ChargeOfferItem", S("rent"), "Rent", "Mandatory", "Monthly",
                               "Explicit", NONE, <<>>,
                               <<AmountBlock(a1, "", NONE, e1, l1),
                                 AmountBlock("75.00", "", NONE, e2, l2)>>)>>)>>)>>)

DocsW ==
  {DocW(a1, e1, l1, e2, l2) :
     a1 \in {"50.00", "NaN"}, e1 \in DateTexts, l1 \in DateTexts,
     e2 \in DateTexts, l2 \in DateTexts}

(***************************************************************************)
(* Family U: a Property holding elements of one level (Building, Floorplan *)
(* or unit, the unit written Unit as in the tests or ILS_Unit) with the    *)
(* given ids, directly below it or nested in a Building and a Floorplan;   *)
(* optionally a second Property repeating the first id, and optionally a   *)
(* second class with the same Code beside the first.                       *)
(***************************************************************************)
LevelTags == {"Building", "Floorplan", "Unit", "ILS_Unit"}

LevelIdLists ==
  {<<S("U1")>>, <<S("U1"), S("U2")>>, <<S("U1"), S("U1")>>,
   <<S("U1"), S("U2"), S("U1")>>, <<S("U1"), P("U1")>>}

DocU(tag, ids, nested, second, twin) ==
  LET class == ChargeOfferClass("C1", <<VariantItem("valid")>>)
      level == [i \in 1..Len(ids) |-> ElA(tag, "IDValue", ids[i], S(""), <<>>)]
  IN Document("PhysicalProperty",
       <<Property(S("P1"),
           (IF nested
            THEN <<Building(S("BX"), <<ElA("Floorplan", "IDValue", S("FX"), S(""), level)>>)>>
            ELSE level)
           \o <<class>> \o (IF twin THEN <<class>> ELSE <<>>))>>
       \o (IF second
           THEN <<Property(S("P2"), <<ElA(tag, "IDValue", ids[1], S(""), <<>>), class>>)>>
           ELSE <<>>))

DocsU ==
  {DocU(tag, ids, nested, second, twin) :
     tag \in LevelTags, ids \in LevelIdLists, nested \in BOOLEAN, second \in BOOLEAN,
     twin \in BOOLEAN}

(***************************************************************************)
(* Family B: one item with the given AmountBasis whose last amount block   *)
(* holds the given Amounts elements and Percentage; optionally a block     *)
(* that suits the basis comes before it.                                   *)
(***************************************************************************)
BasisBlock(amounts, percentage) ==
  El("ChargeOfferAmount", S(""),
     [i \in 1..Len(amounts) |-> Txt("Amounts", amounts[i])]
       \o OptTxt("Percentage", percentage))

AmountsLists ==
  {<<>>, <<"">>, <<"50.00">>, <<"50.00", "75.00">>, <<"50.00,75.00">>, <<"50.00-75.00">>,
   <<"50.00", "75.00", "50.00">>, <<"", "">>}

DocB(basis, amounts, percentage, two) ==
  Document("PhysicalProperty",
    <<Property(S("P1"),
        <<ChargeOfferClass("C1",
            <<OfferItem("ChargeOfferItem", S("fee"), "Fee", "Mandatory", "One-time", basis,
                        NONE, <<>>,
                        (IF two
                         THEN <<BasisBlock(IF basis = "Explicit" THEN <<"50.00">>
                                           ELSE <<"50.00", "75.00">>, "")>>
                         ELSE <<>>)
                        \o <<BasisBlock(amounts, percentage)>>)>>)>>)>>)

DocsB ==
  {DocB(basis, amounts, percentage, two) :
     basis \in {"Explicit", "Within Range", "Range or Variable"}, amounts \in AmountsLists,
     percentage \in {NONE, "", "10.00"}, two \in BOOLEAN}

(***************************************************************************)
(* Family M: the minimal document, one Property with one class and one     *)
(* item carrying one amount block without a Percentage element, for every  *)
(* ChargeRequirement.                                                      *)
(***************************************************************************)
MinimalDocument(req) ==
  Document("PhysicalProperty",
    <<Property(S("p1"),
        <<ChargeOfferClass("APP",
            <<ElA("ChargeOfferItem", "InternalCode", S("app_fee"), S(""),
                  <<Txt("Name", "Application Fee"), Txt("Description", "One-time fee"),
                    El("Characteristics", S(""),
                       <<Txt("ChargeRequirement", req), Txt("Lifecycle", "At Application"),
                         Txt("PaymentFrequency", "One-time")>>),
                    Txt("AmountBasis", "Explicit"),
                    El("ChargeOfferAmount", S(""), <<Txt("Amounts", "50.00")>>)>>)>>)>>)>>)

DocsM == {MinimalDocument(req) : req \in ChargeRequirementValues}

(***************************************************************************)
(* Family A: one class with the item fee priced explicitly and, optionally, *)
(* the item pct priced as a percentage of fee (the Percentage given), the   *)
(* two with the given payment frequencies; optionally a child the class     *)
(* does not know, placed before the items.                                  *)
(***************************************************************************)
DocA(note, feeFrequency, pctFrequency, percentage) ==
  Document("PhysicalProperty",
    <<Property(S("P1"),
        <<ChargeOfferClass("C1",
            (IF note THEN <<Txt("Note", "x")>> ELSE <<>>)
              \o <<OfferItem("ChargeOfferItem", S("fee"), "fee", "Mandatory", feeFrequency,
                             "Explicit", NONE, <<>>,
                             <<AmountBlock("50.00", "", NONE, NONE, NONE)>>)>>
              \o (IF percentage = NONE THEN <<>>
                  ELSE <<OfferItem("ChargeOfferItem", S("pct"), "pct", "Mandatory",
                                   pctFrequency, "Percentage Of", NONE, <<>>,
                                   <<AmountBlock("", percentage, "fee", NONE, NONE)>>)>>))>>)>>)

DocsA ==
  {DocA(note, feeFrequency, pctFrequency, percentage) :
     note \in BOOLEAN, feeFrequency \in {"Monthly", "One-time"},
     pctFrequency \in {"Monthly", "One-time"}, percentage \in {NONE, "10.00", "150", "-5.00"}}

(***************************************************************************)
(* Family D: the classes C1 and C2 of one Property each hold an item with  *)
(* the InternalCode dup (tests/validators/mits/test_offer_item_structure.py,*)
(* test_same_code_different_classes), each with the given PercentageOfCode *)
(* below the item or none; C2 also holds the item base with the given      *)
(* ChargeRequirement.                                                      *)
(***************************************************************************)
SharedCodeItem(code, target, req) ==
  IF target = NONE
  THEN OfferItem("ChargeOfferItem", S(code), code, req,
                 IF req = "Included" THEN NONE ELSE "Monthly",
                 IF req = "Included" THEN NONE ELSE "Explicit", NONE, <<>>,
                 <<AmountBlock(IF req = "Included" THEN "" ELSE "50.00", "",
                               NONE, NONE, NONE)>>)
  ELSE OfferItem("ChargeOfferItem", S(code), code, req, "Monthly", "Percentage Of",
                 target, <<>>, <<AmountBlock("", "10.00", NONE, NONE, NONE)>>)

DocD(firstTarget, lastTarget, baseTarget, req) ==
  Document("PhysicalProperty",
    <<Property(S("P1"),
        <<ChargeOfferClass("C1", <<SharedCodeItem("dup", firstTarget, "Mandatory")>>),
          ChargeOfferClass("C2", <<SharedCodeItem("dup", lastTarget, "Mandatory"),
                                   SharedCodeItem("base", baseTarget, req)>>)>>)>>)

DocsD ==
  {DocD(firstTarget, lastTarget, baseTarget, req) :
     firstTarget \in {NONE, "dup", "base"}, lastTarget \in {NONE, "dup", "base"},
     baseTarget \in {NONE, "dup"}, req \in {"Mandatory", "Included"}}

(***************************************************************************)
(* validate_mits_document (orchestrator.py), one action per validator it   *)
(* calls.  executed lists the validators called so far with the validity   *)
(* of the result each returned; returned holds the dictionary handed back  *)
(* to the caller once the function has returned.                           *)
(***************************************************************************)
\* result = ValidationResult(valid=True) at the entry of a call that keeps
\* the lists of the object the previous call built
EntryResult_keeps_lists(previous) ==
  [valid |-> TRUE, errors |-> previous.errors, warnings |-> previous.warnings,
   info |-> previous.info]

\* result = ValidationResult(valid=True) at the entry of a call: the lists
\* come from default_factory=list, nothing of the previous object is in them
EntryResult(previous) == NewResult

\* the texts a caller validates repeatedly: a valid and an invalid document,
\* one with references among its items, a malformed one and one on which
\* the amount-format validator raises
DocsS ==
  {MinimalDocument("Mandatory"), MinimalDocument("Included"),
   DocR(<<"B", "C", "A">>, FALSE, "Mandatory"), Unparsed("malformed"),
   DocP("PhysicalProperty", <<S("P1")>>, <<>>, FALSE, "nan")}

(***************************************************************************)
(* The transport in front of the core: BodySizeLimitMiddleware             *)
(* (middleware.py) and the handler validate_xml (api/v5.py), which calls   *)
(* validate (services/validation_service.py).  A request is what the       *)
(* server hands over: whether it carries a Content-Length header (a body   *)
(* sent with chunked transfer encoding carries none; when present the      *)
(* header states the size of the body), the size of the body in bytes, its *)
(* Content-Type, whether the body decodes as UTF-8 and whether the text    *)
(* holds a character sanitize_xml_input rejects.                           *)
(***************************************************************************)
\* Settings.max_body_bytes
max_body_bytes == 524288

BodySizes == {0, 1024, max_body_bytes, max_body_bytes + 1, 600000}

NoRequest ==
  [sent |-> FALSE, has_length |-> FALSE, size |-> 0, content_type |-> "", utf8 |-> TRUE,
   illegal |-> FALSE, invoked |-> FALSE, response |-> ""]

Requests ==
  {[sent |-> TRUE, has_length |-> l, size |-> n, content_type |-> t, utf8 |-> u,
    illegal |-> i, invoked |-> FALSE, response |-> ""] :
     l \in BOOLEAN, n \in BodySizes, t \in {"application/xml", "application/json"},
     u \in BOOLEAN, i \in BOOLEAN}

\* the documents the bodies hold: the minimal document, valid and invalid
DocsH == {MinimalDocument("Optional"), MinimalDocument("Included")}

NoOp == [op |-> "none", tgt |-> 1, src |-> 1, pre |-> <<NewResult, NewResult, NewResult>>]

Init ==
  /\ result = NewResult
  /\ executed = <<>>
  /\ returned = <<>>
  /\ objs = <<NewResult, NewResult, NewResult>>
  /\ lastOp = NoOp
  /\ calls = <<>>
  /\ \/ /\ doc \in DocsP \cup DocsR \cup DocsW \cup DocsU \cup DocsB \cup DocsM \cup DocsA
                  \cup DocsD
        /\ pc = "start" /\ http = NoRequest
     \/ doc = Unparsed("none") /\ pc = "objects" /\ http = NoRequest
     \/ doc \in DocsH /\ pc = "middleware" /\ http \in Requests

\* the validator's result merged the other way round: validator.validate().merge(result)
Run_merges_into_validator(name, r, next) ==
  /\ result' = merge(r, result)
  /\ executed' = Append(executed, [validator |-> name, valid |-> r.valid])
  /\ pc' = next
  /\ UNCHANGED <<doc, returned, objs, lastOp, calls, http>>

\* result.merge(validator.validate()) followed by the next statement
Run(name, r, next) ==
  /\ result' = merge(result, r)
  /\ executed' = Append(executed, [validator |-> name, valid |-> r.valid])
  /\ pc' = next
  /\ UNCHANGED <<doc, returned, objs, lastOp, calls, http>>

\* result.merge(validator.validate()) when it is followed by a return
RunAndReturn(name, r) ==
  /\ result' = merge(result, r)
  /\ executed' = Append(executed, [validator |-> name, valid |-> r.valid])
  /\ returned' = <<to_dict(merge(result, r))>>
  /\ pc' = "done"
  /\ UNCHANGED <<doc, objs, lastOp, calls, http>>

\* Phase 1: validate_xml_wellformed, return when it failed
WellFormed ==
  /\ pc = "start"
  /\ LET wellformed_result == validate_xml_wellformed(doc) IN
     IF ~wellformed_result.valid
     THEN RunAndReturn("xml_wellformed", wellformed_result)
     ELSE Run("xml_wellformed", wellformed_result, "xml_structure")

\* the second parse and XmlStructureValidator, return when result is invalid
Structure ==
  /\ pc = "xml_structure"
  /\ IF ~Parses(doc)
     THEN /\ result' = add_error(result, "xml_wellformed", <<>>, "failed to parse")
          /\ returned' = <<to_dict(add_error(result, "xml_wellformed", <<>>,
                                             "failed to parse"))>>
          /\ pc' = "done"
          /\ UNCHANGED <<doc, executed, objs, lastOp, calls, http>>
     ELSE LET r == XmlStructureValidator_validate(doc.root) IN
          IF ~merge(result, r).valid
          THEN RunAndReturn("xml_structure", r)
          ELSE Run("xml_structure", r, "fee_hierarchy")

FeeHierarchy ==
  /\ pc = "fee_hierarchy"
  /\ Run("fee_hierarchy", FeeHierarchyValidator_validate(doc.root), "identity_uniqueness")

IdentityUniqueness ==
  /\ pc = "identity_uniqueness"
  /\ Run("identity_uniqueness", IdentityUniquenessValidator_validate(doc.root),
         "charge_class")

ChargeClass ==
  /\ pc = "charge_class"
  /\ Run("charge_class", ChargeClassValidator_validate(doc.root), "class_limits")

ClassLimits ==
  /\ pc = "class_limits"
  /\ Run("class_limits", ClassLimitsValidator_validate(doc.root), "offer_item_structure")

OfferItemStructure ==
  /\ pc = "offer_item_structure"
  /\ Run("offer_item_structure", OfferItemStructureValidator_validate(doc.root),
         "item_characteristics")

ItemCharacteristics ==
  /\ pc = "item_characteristics"
  /\ Run("item_characteristics", ItemCharacteristicsValidator_validate(doc.root),
         "amount_basis")

AmountBasis ==
  /\ pc = "amount_basis"
  /\ Run("amount_basis", AmountBasisValidator_validate(doc.root), "amount_format")

\* AmountFormatValidator; an exception raised in it leaves the function
\* without a return value
AmountFormat ==
  /\ pc = "amount_format"
  /\ IF AmountFormatValidator_raises(doc.root)
     THEN /\ executed' = Append(executed, [validator |-> "amount_format", valid |-> FALSE])
          /\ pc' = "raised"
          /\ UNCHANGED <<doc, result, returned, objs, lastOp, calls, http>>
     ELSE Run("amount_format", AmountFormatValidator_validate(doc.root),
              "frequency_alignment")

FrequencyAlignment ==
  /\ pc = "frequency_alignment"
  /\ Run("frequency_alignment", FrequencyAlignmentValidator_validate(doc.root),
         "pet_validation")

Pet ==
  /\ pc = "pet_validation"
  /\ Run("pet_validation", PetValidation_validate(doc.root), "parking_validation")

Parking ==
  /\ pc = "parking_validation"
  /\ Run("parking_validation", ParkingValidation_validate(doc.root), "storage_validation")

Storage ==
  /\ pc = "storage_validation"
  /\ Run("storage_validation", StorageValidation_validate(doc.root), "cross_validation")

CrossValidation ==
  /\ pc = "cross_validation"
  /\ Run("cross_validation", CrossValidation_validate(doc.root), "data_quality")

\* DataQualityValidator, then return result.to_dict()
DataQuality ==
  /\ pc = "data_quality"
  /\ RunAndReturn("data_quality", DataQualityValidator_validate(doc.root))

\* the caller, having been handed the outcome of a call, calls
\* validate_mits_document again, on the same text or on another one
NextCall ==
  /\ pc \in {"done", "raised"} /\ ~http.sent
  /\ doc \in DocsS
  /\ Len(calls) < MaxCalls
  /\ calls' = Append(calls, [text |-> doc, left |-> pc, value |-> returned])
  /\ doc' \in DocsS
  /\ pc' = "start"
  /\ result' = EntryResult(result)
  /\ executed' = <<>>
  /\ returned' = <<>>
  /\ UNCHANGED <<objs, lastOp, http>>

\* BodySizeLimitMiddleware.dispatch: BodyTooLargeError when the Content-Length
\* header is present and states more than max_body_size, else call_next
BodySizeLimit ==
  /\ pc = "middleware"
  /\ IF http.has_length /\ http.size > max_body_bytes
     THEN /\ pc' = "responded"
          /\ http' = [http EXCEPT !.response = "too_large"]
     ELSE /\ pc' = "endpoint"
          /\ UNCHANGED http
  /\ UNCHANGED <<doc, result, executed, returned, objs, lastOp, calls>>

\* validate_xml up to its call of validate, and validate up to its call of
\* validate_mits_document
ValidateXml ==
  /\ pc = "endpoint"
  /\ IF http.content_type \notin {"application/xml", "text/xml"}
     THEN pc' = "responded" /\ http' = [http EXCEPT !.response = "content_type"]
     ELSE IF ~http.utf8
     THEN pc' = "responded" /\ http' = [http EXCEPT !.response = "utf8"]
     ELSE IF http.size = 0
     THEN pc' = "responded" /\ http' = [http EXCEPT !.response = "empty"]
     ELSE IF http.illegal
     THEN pc' = "responded"
          /\ http' = [http EXCEPT !.invoked = TRUE, !.response = "sanitation"]
     ELSE pc' = "start" /\ http' = [http EXCEPT !.invoked = TRUE]
  /\ UNCHANGED <<doc, result, executed, returned, objs, lastOp, calls>>

\* validate_xml after validate: the result as the response, or the response
\* of its except clause when validate raised
Respond ==
  /\ pc \in {"done", "raised"} /\ http.sent
  /\ pc' = "responded"
  /\ http' = [http EXCEPT !.response = IF pc = "raised" THEN "unexpected" ELSE "result"]
  /\ UNCHANGED <<doc, result, executed, returned, objs, lastOp, calls>>

(***************************************************************************)
(* A client of base.py building ValidationResult objects: three objects    *)
(* created by ValidationResult(valid=True) and changed by add_error,       *)
(* add_warning, add_info and merge.                                        *)
(***************************************************************************)
RuleIds == {"r1", "r2"}

HeldBy(i) == Len(objs[i].errors) + Len(objs[i].warnings) + Len(objs[i].info)

\* number of messages the objects hold
Held == HeldBy(1) + HeldBy(2) + HeldBy(3)

AddError ==
  /\ pc = "objects" /\ Held < MaxMsgs
  /\ \E i \in 1..3, rule \in RuleIds :
       /\ objs' = [objs EXCEPT ![i] = add_error(@, rule, <<>>, "")]
       /\ lastOp' = [op |-> "add_error", tgt |-> i, src |-> i, pre |-> objs]
  /\ UNCHANGED <<doc, pc, result, executed, returned, calls, http>>

AddWarning ==
  /\ pc = "objects" /\ Held < MaxMsgs
  /\ \E i \in 1..3, rule \in RuleIds :
       /\ objs' = [objs EXCEPT ![i] = add_warning(@, rule, <<>>, "")]
       /\ lastOp' = [op |-> "add_warning", tgt |-> i, src |-> i, pre |-> objs]
  /\ UNCHANGED <<doc, pc, result, executed, returned, calls, http>>

AddInfo ==
  /\ pc = "objects" /\ Held < MaxMsgs
  /\ \E i \in 1..3, rule \in RuleIds :
       /\ objs' = [objs EXCEPT ![i] = add_info(@, rule, <<>>, "")]
       /\ lastOp' = [op |-> "add_info", tgt |-> i, src |-> i, pre |-> objs]
  /\ UNCHANGED <<doc, pc, result, executed, returned, calls, http>>

\* objs[i].merge(objs[j]); i = j merges an object into itself
Merge ==
  /\ pc = "objects"
  /\ \E i \in 1..3, j \in 1..3 :
       /\ Held + HeldBy(j) <= MaxMsgs
       /\ objs' = [objs EXCEPT ![i] = merge(objs[i], objs[j])]
       /\ lastOp' = [op |-> "merge", tgt |-> i, src |-> j, pre |-> objs]
  /\ UNCHANGED <<doc, pc, result, executed, returned, calls, http>>

\* a.merge(b); a.merge(c) with a, b, c the first, second and third object
MergeTwice ==
  /\ pc = "objects"
  /\ Held <= MaxMsgs
  /\ objs' = [objs EXCEPT ![1] = merge(merge(objs[1], objs[2]), objs[3])]
  /\ lastOp' = [op |-> "merge_twice", tgt |-> 1, src |-> 2, pre |-> objs, third |-> 3]
  /\ UNCHANGED <<doc, pc, result, executed, returned, calls, http>>

\* b.merge(c); a.merge(b) with a, b, c the first, second and third object
MergeNested ==
  /\ pc = "objects"
  /\ Held <= MaxMsgs
  /\ objs' = [objs EXCEPT ![2] = merge(objs[2], objs[3]),
                          ![1] = merge(objs[1], merge(objs[2], objs[3]))]
  /\ lastOp' = [op |-> "merge_nested", tgt |-> 1, src |-> 2, pre |-> objs, third |-> 3]
  /\ UNCHANGED <<doc, pc, result, executed, returned, calls, http>>

Next ==
  \/ WellFormed \/ Structure \/ FeeHierarchy \/ IdentityUniqueness
  \/ ChargeClass \/ ClassLimits \/ OfferItemStructure \/ ItemCharacteristics
  \/ AmountBasis \/ AmountFormat \/ FrequencyAlignment \/ Pet \/ Parking \/ Storage
  \/ CrossValidation \/ DataQuality \/ NextCall
  \/ BodySizeLimit \/ ValidateXml \/ Respond
  \/ AddError \/ AddWarning \/ AddInfo \/ Merge \/ MergeTwice \/ MergeNested

Spec == Init /\ [][Next]_vars

(***************************************************************************)
(* Properties.                                                             *)
(***************************************************************************)
\* the names of the validators called so far, in call order
ExecutedNames == [i \in DOMAIN executed |-> executed[i].validator]

\* validate_mits_document has been left, by a return or by an exception
Finished == pc \in {"done", "raised"}

Phase2Validators == {"xml_structure", "fee_hierarchy", "identity_uniqueness"}

LaterValidators ==
  <<"charge_class", "class_limits", "offer_item_structure", "item_characteristics",
    "amount_basis", "amount_format", "frequency_alignment", "pet_validation",
    "parking_validation", "storage_validation", "cross_validation", "data_quality">>

\* the document was parsed and its root is not the PhysicalProperty container
WrongRoot == pc # "objects" /\ Parses(doc) /\ doc.root.tag # "PhysicalProperty"

\* C1: for a well-formed document whose root tag is not PhysicalProperty,
\* only the well-formedness check and the structure validator are ever
\* called, and the function returns valid = false with exactly one error,
\* the root structural error.
C1_WrongRootStopsAfterStructure ==
  WrongRoot =>
    /\ pc \in {"start", "xml_structure", "done"}
    /\ \A i \in DOMAIN executed :
         executed[i].validator \in {"xml_wellformed", "xml_structure"}
    /\ pc = "done" =>
         /\ ExecutedNames = <<"xml_wellformed", "xml_structure">>
         /\ Len(returned) = 1
         /\ returned[1].valid = FALSE
         /\ Len(returned[1].errors) = 1
         /\ returned[1].errors[1][1] = "root_is_physical_property"

C1_Witness ==
  /\ WrongRoot /\ pc = "done" /\ Len(executed) = 2
  /\ FindAll(doc.root, "Property") = <<>>
  /\ Iter(doc.root, "ChargeOfferClass") # <<>>

\* C2: once a Phase 2 validator (structure, fee hierarchy, identity
\* uniqueness) has reported an error, no validator of Phases 3-7 is called.
C2_Phase2ErrorStops ==
  (\E i \in DOMAIN executed :
     executed[i].validator \in Phase2Validators /\ ~executed[i].valid)
  => \A j \in DOMAIN executed : executed[j].validator \notin Range(LaterValidators)

\* C3: when Phase 2 has completed without a short-circuit and the function
\* has been left, the validators of Phases 3-7 have each been called once,
\* in the fixed order.
C3_LaterPhasesRunInOrder ==
  (Finished /\ Len(executed) >= 4 /\ executed[4].validator = "identity_uniqueness")
  => SubSeq(ExecutedNames, 5, Len(executed)) = LaterValidators

\* C4: for a text the parser rejects, only the well-formedness check is
\* called and the function returns valid = false with exactly one error and
\* no warnings and no info.
C4_RejectedTextSingleError ==
  (pc # "objects" /\ ~Parses(doc)) =>
    /\ pc \in {"start", "done"}
    /\ \A i \in DOMAIN executed : executed[i].validator = "xml_wellformed"
    /\ pc = "done" =>
         /\ ExecutedNames = <<"xml_wellformed">>
         /\ Len(returned) = 1
         /\ returned[1].valid = FALSE
         /\ Len(returned[1].errors) = 1
         /\ returned[1].warnings = <<>>
         /\ returned[1].info = <<>>

C4_Witness ==
  /\ pc = "done" /\ doc.kind = "forbidden"
  /\ Len(returned) = 1 /\ returned[1].errors[1][1] = "xml_wellformed"

\* valid is true exactly when the errors list is empty
ValidIffNoErrors(r) == r.valid <=> (r.errors = <<>>)

\* C5: in every ValidationResult built from ValidationResult(valid=True) by
\* add_error, add_warning, add_info and merge, valid is true exactly when
\* errors is empty; so it is in the aggregate of validate_mits_document and
\* in the dictionary it returns.
C5_ValidIffNoErrors ==
  /\ ValidIffNoErrors(objs[1])
  /\ ValidIffNoErrors(objs[2])
  /\ ValidIffNoErrors(objs[3])
  /\ ValidIffNoErrors(result)
  /\ returned # <<>> => ValidIffNoErrors(returned[1])

C5_Witness ==
  /\ pc = "objects" /\ lastOp.op = "merge" /\ lastOp.tgt # lastOp.src
  /\ lastOp.pre[lastOp.tgt].valid /\ lastOp.pre[lastOp.tgt].warnings # <<>>
  /\ ~objs[lastOp.tgt].valid /\ objs[lastOp.tgt].errors # <<>>

\* C6: after a.merge(b) each of a.errors, a.warnings, a.info is a's previous
\* list followed by the whole corresponding list of b in b's order, and
\* a.valid is (previous a.valid and b.valid).
C6_MergeConcatenates ==
  lastOp.op = "merge" =>
    LET a == lastOp.pre[lastOp.tgt]
        b == lastOp.pre[lastOp.src]
        now == objs[lastOp.tgt]
    IN /\ now.errors = a.errors \o b.errors
       /\ now.warnings = a.warnings \o b.warnings
       /\ now.info = a.info \o b.info
       /\ now.valid = (a.valid /\ b.valid)
       /\ \A k \in 1..3 : k # lastOp.tgt => objs[k] = lastOp.pre[k]

C6_Witness ==
  /\ lastOp.op = "merge" /\ lastOp.tgt # lastOp.src
  /\ lastOp.pre[lastOp.tgt].errors # <<>> /\ lastOp.pre[lastOp.src].errors # <<>>
  /\ lastOp.pre[lastOp.tgt].errors[1] # lastOp.pre[lastOp.src].errors[1]
  /\ Len(objs[lastOp.tgt].errors) = 2

\* no value occurs twice in the sequence
Distinct(s) == \A i, j \in DOMAIN s : i # j => s[i] # s[j]

\* an identifier: non-empty, without surrounding whitespace
CleanId(t) == ~t.pad /\ t.core # ""

\* a decimal text with at most two fractional digits, not negative
PlainAmount(t) ==
  /\ Len(SplitCommas(t)) = 1
  /\ Decimal(t).kind = "finite" /\ ~Decimal(t).neg /\ Decimal(t).exponent >= -2
  /\ ~HasInvalidNumericChars(t) /\ ~StartsWithPlus(t)

\* an item of the data model in its simplest forms: a ChargeOfferItem with
\* name, description, one Characteristics and amount blocks without dates or
\* references; either Included with empty pricing and no frequency, or
\* priced explicitly with one plain amount per block
ItemConforms(item) ==
  LET ch == Find(item, "Characteristics")
      blocks == FindAll(item, "ChargeOfferAmount")
      req == TextOf(ch, "ChargeRequirement")
  IN /\ item.tag = "ChargeOfferItem"
     /\ CleanId(Get(item, "InternalCode", S("")))
     /\ \A i \in DOMAIN item.kids :
          item.kids[i].tag \in {"Name", "Description", "Characteristics", "AmountBasis",
                                "ChargeOfferAmount"}
     /\ Truthy(TextOf(item, "Name")) /\ Truthy(TextOf(item, "Description"))
     /\ Len(FindAll(item, "Characteristics")) = 1
     /\ \A i \in DOMAIN ch.kids :
          ch.kids[i].tag \in {"ChargeRequirement", "Lifecycle", "PaymentFrequency"}
     /\ req.core \in {"Included", "Mandatory", "Optional", "Situational"}
     /\ TextOf(ch, "Lifecycle").core \in {"At Application", "Move-in", "Move-out"}
     /\ Has(ch, "PaymentFrequency") => TextOf(ch, "PaymentFrequency").core \in PaymentFrequencyValues
     /\ blocks # <<>>
     /\ \A b \in Range(blocks) :
          \A i \in DOMAIN item.kids[b].kids :
            item.kids[b].kids[i].tag \in {"Amounts", "Percentage"}
     /\ IF req = S("Included")
        THEN /\ ~Truthy(TextOf(item, "AmountBasis"))
             /\ ~Has(ch, "PaymentFrequency")
             /\ \A b \in Range(blocks) :
                  /\ ~Truthy(TextOf(item.kids[b], "Amounts"))
                  /\ ~Truthy(TextOf(item.kids[b], "Percentage"))
        ELSE /\ TextOf(item, "AmountBasis") = S("Explicit")
             /\ \A b \in Range(blocks) :
                  /\ Len(FindAll(item.kids[b], "Amounts")) = 1
                  /\ PlainAmount(TextOf(item.kids[b], "Amounts"))
                  /\ ~Truthy(TextOf(item.kids[b], "Percentage"))

\* a sufficient condition for the invariants of the data model: the
\* container and its Properties, identifiers unique in their scopes, classes
\* placed below a Property or a Building with codes unique among siblings,
\* InternalCodes unique in their class, conforming items
Conforms(root) ==
  LET props == FindAll(root, "Property")
      all == IterAll(root, <<>>)
      classes == Iter(root, "ChargeOfferClass")
  IN /\ root.tag = "PhysicalProperty"
     /\ props # <<>>
     /\ \A i \in DOMAIN root.kids : root.kids[i].tag = "Property"
     /\ \A k \in DOMAIN all :
          At(root, all[k]).tag \in {"Property", "Building"}
            => CleanId(Get(At(root, all[k]), "IDValue", S("")))
     /\ Distinct([k \in DOMAIN props |-> Get(root.kids[props[k]], "IDValue", S(""))])
     /\ \A k \in DOMAIN props :
          LET bs == FindAllDeep(root.kids[props[k]], "Building") IN
          Distinct([b \in DOMAIN bs |->
                      Get(At(root.kids[props[k]], bs[b]), "IDValue", S(""))])
     /\ \A k \in DOMAIN all :
          LET e == At(root, all[k])
              cs == FindAll(e, "ChargeOfferClass")
          IN /\ cs # <<>> => e.tag \in {"Property", "Building"}
             /\ Distinct([c \in DOMAIN cs |-> Get(e.kids[cs[c]], "Code", S(""))])
     /\ \A k \in DOMAIN classes :
          LET c == At(root, classes[k])
              items == ItemsOf(c)
          IN /\ CleanId(Get(c, "Code", S("")))
             /\ items # <<>>
             /\ \A i \in DOMAIN c.kids : c.kids[i].tag \in VALID_ITEM_TYPES
             /\ Distinct([i \in DOMAIN items |-> Get(c.kids[items[i]], "InternalCode", S(""))])
             /\ \A i \in DOMAIN items : ItemConforms(c.kids[items[i]])

\* C7: for a well-formed document satisfying the invariants of the data
\* model, the function returns valid = true and an empty error list.
C7_ConformingDocumentIsValid ==
  (Finished /\ Parses(doc) /\ Conforms(doc.root)) =>
    /\ pc = "done" /\ Len(returned) = 1
    /\ returned[1].valid /\ returned[1].errors = <<>>

\* an error of one of the rules is reported at the element at p or below it
ReportedAt(rules, p) ==
  /\ returned # <<>>
  /\ \E k \in DOMAIN returned[1].errors :
       LET e == returned[1].errors[k] IN
       /\ e[1] \in rules
       /\ Len(e[3]) >= Len(p) /\ SubSeq(e[3], 1, Len(p)) = p

\* the codes the item names in a PercentageOfCode, its own or its blocks'
PercentageOfCodes(item) ==
  ({TextOf(item, "PercentageOfCode")}
     \cup {TextOf(item.kids[b], "PercentageOfCode") :
             b \in Range(FindAll(item, "ChargeOfferAmount"))}) \ {S("")}

SelfReferencing(item) ==
  /\ TextOf(item, "AmountBasis") = S("Percentage Of")
  /\ Get(item, "InternalCode", S("")) \in PercentageOfCodes(item)

\* the rule validators have been reached and the function has been left
RulesRan == Finished /\ Len(executed) >= 4

\* C8: for every item whose AmountBasis is Percentage Of and whose
\* PercentageOfCode is its own InternalCode a self-reference error is
\* reported, whatever else the document holds.
C8_SelfReferenceReported ==
  RulesRan =>
    \A p \in Range(AllItems(doc.root)) :
      SelfReferencing(At(doc.root, p))
        => ReportedAt({"basis_percentage_no_circular", "reference_no_self"}, p)

\* item a names item b in a PercentageOfCode
References(root, a, b) ==
  Get(At(root, b), "InternalCode", S("")) \in PercentageOfCodes(At(root, a))

\* C9: for three items whose PercentageOfCode references form the chain
\* A -> B -> C -> A, a circular-reference error is reported for at least
\* one of them.
C9_CycleReported ==
  RulesRan =>
    \A a, b, c \in Range(AllItems(doc.root)) :
      (a # b /\ b # c /\ a # c /\ References(doc.root, a, b)
         /\ References(doc.root, b, c) /\ References(doc.root, c, a))
      => \E x \in {a, b, c} : ReportedAt({"reference_no_circular"}, x)

\* the block is scheduled: StartTermEarliest is a date and StartTermLatest
\* is absent or a date
Scheduled(block) ==
  /\ parse_date(TextOf(block, "StartTermEarliest")) # 0
  /\ Truthy(TextOf(block, "StartTermLatest"))
       => parse_date(TextOf(block, "StartTermLatest")) # 0

\* [StartTermEarliest, StartTermLatest], the single point Earliest without Latest
WindowStart(block) == parse_date(TextOf(block, "StartTermEarliest"))
WindowEnd(block) ==
  IF Truthy(TextOf(block, "StartTermLatest"))
  THEN parse_date(TextOf(block, "StartTermLatest"))
  ELSE parse_date(TextOf(block, "StartTermEarliest"))

Intersect(b1, b2) ==
  WindowStart(b1) <= WindowEnd(b2) /\ WindowStart(b2) <= WindowEnd(b1)

\* an overlap error is reported for the i-th and j-th block of the item at p
OverlapReported(p, i, j) ==
  /\ returned # <<>>
  /\ \E k \in DOMAIN returned[1].errors :
       /\ returned[1].errors[k][1] = "I.64.3"
       /\ returned[1].errors[k][3] = p \o <<i, j>>

\* C10: for two scheduled amount blocks of the same item an overlap error
\* is reported for the pair exactly when their windows intersect.
C10_OverlapIffIntersect ==
  RulesRan =>
    \A p \in Range(AllItems(doc.root)) :
      LET item == At(doc.root, p)
          blocks == FindAll(item, "ChargeOfferAmount")
      IN \A i, j \in DOMAIN blocks :
           (i < j /\ Scheduled(item.kids[blocks[i]]) /\ Scheduled(item.kids[blocks[j]]))
           => (OverlapReported(p, i, j)
                 <=> Intersect(item.kids[blocks[i]], item.kids[blocks[j]]))

\* the rules of the errors returned, in order
ReturnedErrorRules == [k \in DOMAIN returned[1].errors |-> returned[1].errors[k][1]]

\* C11: for the minimal document with ChargeRequirement set to Included and
\* Amounts 50.00 left in place, the function returns exactly one error, the
\* one saying that the amounts of an Included item must be empty.
C11_IncludedPricedSingleError ==
  (pc = "done" /\ doc = MinimalDocument("Included")) =>
    /\ Len(returned) = 1
    /\ ReturnedErrorRules = <<"basis_included_amounts_empty">>

\* C11 as the code has it: the function returns valid = false with exactly
\* two errors, first that AmountBasis must be empty for an Included item
\* (the document still says Explicit), then that its amounts must be empty.
C11_IncludedPricedTwoErrors ==
  (pc = "done" /\ doc = MinimalDocument("Included")) =>
    /\ Len(returned) = 1
    /\ returned[1].valid = FALSE
    /\ ReturnedErrorRules = <<"basis_included_empty", "basis_included_amounts_empty">>
    /\ returned[1].errors[2][3] = <<1, 1, 1, 5>>

C11_Witness ==
  /\ pc = "done" /\ doc = MinimalDocument("Included")
  /\ Len(executed) = 16 /\ Len(returned[1].errors) = 2

\* the InternalCodes the items of the document carry
ItemCodes(root) ==
  {Get(At(root, p), "InternalCode", S("")) : p \in Range(AllItems(root))}

\* the codes the item names in a PercentageOfCode that no item carries
UnresolvedCodes(root, p) == PercentageOfCodes(At(root, p)) \ ItemCodes(root)

\* the rules about the target of a PercentageOfCode: its existence (O.90),
\* cycles through it (O.92) and an Included target (O.93)
ReferenceTargetRules ==
  {"reference_code_exists", "reference_no_circular", "reference_not_included"}

ErrorNaming(p, value) ==
  /\ returned # <<>>
  /\ \E k \in DOMAIN returned[1].errors :
       LET e == returned[1].errors[k] IN
       /\ e[2] = value
       /\ Len(e[3]) >= Len(p) /\ SubSeq(e[3], 1, Len(p)) = p

\* C13: for a document with a Percentage Of item whose PercentageOfCode
\* names a code that no item has, the function returns valid = false and
\* one of its errors says that the item references the non-existent code.
C13_MissingReferenceReported ==
  pc = "done" =>
    \A p \in Range(AllItems(doc.root)) :
      (TextOf(At(doc.root, p), "AmountBasis") = S("Percentage Of")
         /\ UnresolvedCodes(doc.root, p) # {})
      => /\ returned[1].valid = FALSE
         /\ \/ ReportedAt({"reference_code_exists"}, p)
            \/ \E c \in UnresolvedCodes(doc.root, p) : ErrorNaming(p, c.core)

\* the validator has been called and its result merged into the aggregate
Called(name) == name \in Range(ExecutedNames)

\* the errors of the rule in the aggregate, in order
ErrorsOf(rule) == SelectSeq(result.errors, LAMBDA m : m.rule_id = rule)

\* the class at p follows, under the same parent element, a class with the
\* same non-empty Code
FollowsSiblingWithCode(root, p) ==
  LET code == Strip(Get(At(root, p), "Code", S(""))) IN
  /\ Truthy(code)
  /\ \E q \in Range(Iter(root, "ChargeOfferClass")) :
       /\ Len(q) = Len(p)
       /\ SubSeq(q, 1, Len(q) - 1) = SubSeq(p, 1, Len(p) - 1)
       /\ q[Len(q)] < p[Len(p)]
       /\ Strip(Get(At(root, q), "Code", S(""))) = code

\* C14: a duplicate-class-Code error is reported for a class exactly when an
\* earlier class with the same non-empty Code has the same parent element;
\* equal Codes below different parent elements are never reported.
C14_DuplicateCodeIffSameParent ==
  (Parses(doc) /\ Called("charge_class")) =>
    \A p \in Range(Iter(doc.root, "ChargeOfferClass")) :
      (\E k \in DOMAIN ErrorsOf("class_code_unique_in_parent") :
         ErrorsOf("class_code_unique_in_parent")[k].at = p)
      <=> FollowsSiblingWithCode(doc.root, p)

\* the tags under which a level of the hierarchy is written
TagsOfLevel(level) == IF level = "Unit" THEN {"Unit", "ILS_Unit"} ELSE {level}

DuplicateIdRule(level) ==
  CASE level = "Building" -> "building_id_unique"
    [] level = "Floorplan" -> "floorplan_id_unique"
    [] OTHER -> "unit_id_unique"

\* two elements of the level below the Property at index pi carry the same
\* non-empty id
SharedId(root, pi, level) ==
  \E tag \in TagsOfLevel(level) :
    LET els == FindAllDeep(root.kids[pi], tag) IN
    \E j, k \in DOMAIN els :
      /\ j < k
      /\ Truthy(Get(At(root.kids[pi], els[j]), "IDValue", S("")))
      /\ Strip(Get(At(root.kids[pi], els[j]), "IDValue", S("")))
           = Strip(Get(At(root.kids[pi], els[k]), "IDValue", S("")))

\* C15: within a Property, two Buildings, two Floorplans or two Units that
\* share an id draw the duplicate-id error of their level; ids that are
\* equal only across two Properties draw none.
C15_DuplicateIdsWithinProperty ==
  (Parses(doc) /\ Called("identity_uniqueness")) =>
    \A pi \in Range(FindAll(doc.root, "Property")) :
      \A level \in {"Building", "Floorplan", "Unit"} :
        SharedId(doc.root, pi, level)
          <=> \E k \in DOMAIN ErrorsOf(DuplicateIdRule(level)) :
                ErrorsOf(DuplicateIdRule(level))[k].at[1] = pi

\* the Property at index k of props repeats the trimmed id of an earlier one
RepeatsPropertyId(root, props, k) ==
  LET id(i) == Strip(Get(root.kids[props[i]], "IDValue", S(""))) IN
  Truthy(id(k)) /\ \E j \in 1..(k - 1) : id(j) = id(k)

\* C16: every Property whose trimmed id equals that of an earlier Property
\* draws one duplicate-id error naming the value, the first Property with a
\* value draws none, so k Properties sharing an id give k - 1 errors.
C16_DuplicatePropertyIds ==
  (Parses(doc) /\ Called("xml_structure") /\ doc.root.tag = "PhysicalProperty") =>
    LET props == FindAll(doc.root, "Property")
        errs == ErrorsOf("property_id_unique")
    IN /\ \A k \in DOMAIN props :
            LET hits == {e \in DOMAIN errs : errs[e].at = <<props[k]>>} IN
            IF RepeatsPropertyId(doc.root, props, k)
            THEN /\ Cardinality(hits) = 1
                 /\ \A e \in hits :
                      errs[e].detail = Get(doc.root.kids[props[k]], "IDValue", S("")).core
            ELSE hits = {}
       /\ Len(errs) = Cardinality({k \in DOMAIN props : RepeatsPropertyId(doc.root, props, k)})

\* three Properties share one id, the second written with surrounding
\* whitespace: two errors
C16_Witness ==
  /\ pc = "done" /\ Parses(doc) /\ Called("xml_structure")
  /\ Len(FindAll(doc.root, "Property")) = 3
  /\ Len(ErrorsOf("property_id_unique")) = 2
  /\ returned[1].errors[1] = <<"property_id_unique", "P1", <<2>>>>

\* the rules of the amount-basis validator
BasisRules ==
  {"basis_included_empty", "basis_included_amounts_empty", "basis_included_percentage_empty",
   "basis_enum_valid", "item_amount_basis_required", "item_percentage_code_when_needed",
   "basis_explicit_amounts_nonempty", "basis_explicit_percentage_empty",
   "basis_percentage_has_value", "basis_percentage_amounts_empty",
   "basis_percentage_has_code", "basis_percentage_no_circular", "basis_range_one_amount",
   "basis_stepped_min_two", "basis_variable_not_both"}

\* the aggregate holds an error of one of the rules for the element at p
ErrorAt(rules, p) ==
  \E k \in DOMAIN result.errors :
    result.errors[k].rule_id \in rules /\ result.errors[k].at = p

\* C17: for an item whose AmountBasis is Within Range or Range or Variable,
\* the basis rules accept an amount block exactly when it holds exactly two
\* Amounts elements; any other number of Amounts elements draws the range
\* error for the block.
C17_RangeNeedsTwoAmountsElements ==
  (Parses(doc) /\ Called("amount_basis")) =>
    \A p \in Range(AllItems(doc.root)) :
      LET item == At(doc.root, p) IN
      TextOf(item, "AmountBasis") \in {S("Within Range"), S("Range or Variable")} =>
        \A b \in Range(FindAll(item, "ChargeOfferAmount")) :
          LET n == Len(FindAll(item.kids[b], "Amounts")) IN
          /\ (n = 2) <=> ~(ErrorAt(BasisRules, p) \/ ErrorAt(BasisRules, Append(p, b)))
          /\ (n # 2) => ErrorAt({"basis_range_one_amount"}, Append(p, b))

\* C18: for an item whose AmountBasis is Explicit, a block without a
\* non-empty amount value draws the explicit-amounts-required error and a
\* block with a non-empty Percentage draws the
\* explicit-percentage-must-be-empty error.
C18_ExplicitNeedsAmountNoPercentage ==
  (Parses(doc) /\ Called("amount_basis")) =>
    \A p \in Range(AllItems(doc.root)) :
      LET item == At(doc.root, p) IN
      (TextOf(item, "AmountBasis") = S("Explicit")
         /\ ChargeRequirementOf(item) # S("Included")) =>
        \A b \in Range(FindAll(item, "ChargeOfferAmount")) :
          /\ ~AmountsTextTruthy(item.kids[b])
               => ErrorAt({"basis_explicit_amounts_nonempty"}, Append(p, b))
          /\ Truthy(TextOf(item.kids[b], "Percentage"))
               => ErrorAt({"basis_explicit_percentage_empty"}, Append(p, b))

\* C19: a call of validate_mits_document on a text that was validated
\* before, whatever texts were validated in between, ends as the earlier
\* call did: the same valid, errors, warnings and info are returned.
C19_RepeatedCallSameResult ==
  pc \in {"done", "raised"} =>
    \A i \in DOMAIN calls :
      calls[i].text = doc => (calls[i].left = pc /\ calls[i].value = returned)

\* the third call repeats the text of the first after a call on another
\* text that returned other errors
C19_Witness ==
  /\ pc = "done" /\ Len(calls) = 2
  /\ calls[1].text = doc /\ calls[2].text # doc
  /\ returned[1].errors # <<>>
  /\ calls[2].left = "done" /\ calls[2].value[1].errors # <<>>
  /\ calls[2].value # returned

\* the three results before the last pair of merges: the target, the one
\* merged first (or into which the third was merged), the third
ChainOperands == <<lastOp.pre[lastOp.tgt], lastOp.pre[lastOp.src], lastOp.pre[lastOp.third]>>

\* C20: merging b and then c into a leaves in a the errors, warnings, info
\* and valid that merging c into b and then b into a leaves in it; and
\* valid comes out the same in whichever order the three are merged.
C20_MergeAssociative ==
  lastOp.op \in {"merge_twice", "merge_nested"} =>
    LET a == ChainOperands[1]
        b == ChainOperands[2]
        c == ChainOperands[3]
        now == objs[lastOp.tgt]
    IN /\ lastOp.op = "merge_twice" => now = merge(a, merge(b, c))
       /\ lastOp.op = "merge_nested" => now = merge(merge(a, b), c)
       /\ \A x, y, z \in {a, b, c} :
            {x, y, z} = {a, b, c} => merge(merge(x, y), z).valid = now.valid

\* b then c were merged into a: a was valid and held a message, b held an
\* error, c held another message
C20_Witness ==
  /\ lastOp.op = "merge_twice"
  /\ ChainOperands[1].valid /\ ChainOperands[1].warnings # <<>>
  /\ ChainOperands[2].errors # <<>>
  /\ ChainOperands[3].valid /\ ChainOperands[3].info # <<>>
  /\ Len(objs[lastOp.tgt].errors) = 1 /\ ~objs[lastOp.tgt].valid

\* C21: a call on a well-formed document returns a result: it never leaves
\* validate_mits_document by an exception, whatever the Amounts, Percentage,
\* Duration and date texts are.
C21_WellFormedNeverRaises == Parses(doc) => pc # "raised"

\* C22: add_warning and add_info leave valid and errors of the object as they
\* were; and a call whose validators emitted warnings and info but no error
\* returns valid = true, every validator having reported itself valid.
C22_AdvisoryKeepsVerdict ==
  /\ lastOp.op \in {"add_warning", "add_info"} =>
       /\ objs[lastOp.tgt].valid = lastOp.pre[lastOp.tgt].valid
       /\ objs[lastOp.tgt].errors = lastOp.pre[lastOp.tgt].errors
  /\ (pc = "done" /\ returned[1].errors = <<>>) =>
       /\ returned[1].valid
       /\ \A k \in DOMAIN executed : executed[k].valid

\* a call that returned valid with a warning or an info message in its result
C22_Witness ==
  /\ pc = "done" /\ returned[1].valid /\ returned[1].errors = <<>>
  /\ returned[1].warnings # <<>> \/ returned[1].info # <<>>
  /\ Len(executed) > 2

\* C23: validate is invoked only for requests whose body is not larger than
\* max_body_bytes.
C23_OversizedNeverReachesCore == http.invoked => http.size <= max_body_bytes

\* the result the named validator returns on the document
ResultOf(name, d) ==
  CASE name = "xml_wellformed" -> validate_xml_wellformed(d)
    [] name = "xml_structure" -> XmlStructureValidator_validate(d.root)
    [] name = "fee_hierarchy" -> FeeHierarchyValidator_validate(d.root)
    [] name = "identity_uniqueness" -> IdentityUniquenessValidator_validate(d.root)
    [] name = "charge_class" -> ChargeClassValidator_validate(d.root)
    [] name = "class_limits" -> ClassLimitsValidator_validate(d.root)
    [] name = "offer_item_structure" -> OfferItemStructureValidator_validate(d.root)
    [] name = "item_characteristics" -> ItemCharacteristicsValidator_validate(d.root)
    [] name = "amount_basis" -> AmountBasisValidator_validate(d.root)
    [] name = "amount_format" -> AmountFormatValidator_validate(d.root)
    [] name = "frequency_alignment" -> FrequencyAlignmentValidator_validate(d.root)
    [] name = "pet_validation" -> PetValidation_validate(d.root)
    [] name = "parking_validation" -> ParkingValidation_validate(d.root)
    [] name = "storage_validation" -> StorageValidation_validate(d.root)
    [] name = "cross_validation" -> CrossValidation_validate(d.root)
    [] name = "data_quality" -> DataQualityValidator_validate(d.root)

\* the validators in the order validate_mits_document calls them
ValidatorOrder ==
  <<"xml_wellformed", "xml_structure", "fee_hierarchy", "identity_uniqueness",
    "charge_class", "class_limits", "offer_item_structure", "item_characteristics",
    "amount_basis", "amount_format", "frequency_alignment", "pet_validation",
    "parking_validation", "storage_validation", "cross_validation", "data_quality">>

\* the results the validators called returned, in call order
Returned(d) == [k \in DOMAIN executed |-> ResultOf(executed[k].validator, d)]

\* C24: when validate_mits_document has returned, the validators were called
\* in the fixed order, and each of errors, warnings and info of the result is
\* the list of the first validator called, followed by the list of the second,
\* and so on, each validator's list in the order it emitted it.
C24_ListsInValidatorOrder ==
  (pc = "done" /\ Parses(doc)) =>
    LET rs == Returned(doc) IN
    /\ ExecutedNames = SubSeq(ValidatorOrder, 1, Len(executed))
    /\ \A severity \in {"errors", "warnings", "info"} :
         /\ result[severity] = Flatten([k \in DOMAIN rs |-> rs[k][severity]])
         /\ returned[1][severity] =
              [i \in DOMAIN result[severity] |-> MsgStr(result[severity][i])]

\* a call returned after two validators reported errors and one a warning
C24_Witness ==
  /\ pc = "done" /\ Parses(doc)
  /\ \E i, j \in DOMAIN executed : i < j /\ ~executed[i].valid /\ ~executed[j].valid
  /\ result.warnings # <<>>

\* the item at p and the item at q are different children of one
\* ChargeOfferClass element
SameClassElement(p, q) ==
  p # q /\ SubSeq(p, 1, Len(p) - 1) = SubSeq(q, 1, Len(q) - 1)

\* C25: a duplicate-Name error (T.109) is reported exactly when two items of
\* one ChargeOfferClass element have Names that are equal ignoring case;
\* items of different class elements are never compared.
C25_DuplicateNameWithinClassElement ==
  (Parses(doc) /\ Called("data_quality")) =>
    (ErrorsOf("T.109") # <<>>
       <=> \E p, q \in Range(AllItems(doc.root)) :
             /\ SameClassElement(p, q)
             /\ Truthy(DuplicateName(At(doc.root, p)))
             /\ DuplicateName(At(doc.root, p)) = DuplicateName(At(doc.root, q)))

\* C26: a duplicate-definition error (T.110) is reported only when two items
\* of a class have the same InternalCode and identical Characteristics.
C26_DuplicateDefinitionNeedsSameCode ==
  (Parses(doc) /\ Called("data_quality") /\ ErrorsOf("T.110") # <<>>) =>
    \E p, q \in Range(AllItems(doc.root)) :
      /\ p # q
      /\ Get(At(doc.root, SubSeq(p, 1, Len(p) - 1)), "Code", S("unknown"))
           = Get(At(doc.root, SubSeq(q, 1, Len(q) - 1)), "Code", S("unknown"))
      /\ Get(At(doc.root, p), "InternalCode", S("unknown"))
           = Get(At(doc.root, q), "InternalCode", S("unknown"))
      /\ build_characteristics_hash(At(doc.root, p))
           = build_characteristics_hash(At(doc.root, q))

\* the codes met when following the PercentageOfCode of the registry from
\* item_code, over at most n references
RECURSIVE ReferenceChain(_, _, _)
ReferenceChain(registry, item_code, n) ==
  IF \/ n = 0
     \/ item_code \notin Range(RegistryKeys(registry))
     \/ ~Truthy(RegistryPercentageOfCode(registry, item_code))
  THEN <<item_code>>
  ELSE <<item_code>>
         \o ReferenceChain(registry, RegistryPercentageOfCode(registry, item_code), n - 1)

\* a code occurs twice among the codes of the chain
Revisits(chain) == \E i, j \in DOMAIN chain : i < j /\ chain[i] = chain[j]

\* the registered item refers to another registered item
RefersToRegistered(registry, item_code) ==
  /\ Truthy(RegistryPercentageOfCode(registry, item_code))
  /\ RegistryPercentageOfCode(registry, item_code) # item_code
  /\ RegistryPercentageOfCode(registry, item_code) \in Range(RegistryKeys(registry))

CircularReported(registry, item_code) ==
  \E k \in DOMAIN ErrorsOf("reference_no_circular") :
    ErrorsOf("reference_no_circular")[k].at = RegistryElement(registry, item_code)

\* C27: for every registered item whose PercentageOfCode is non-empty, is
\* not its own code and names a registered item, reference_no_circular is
\* reported exactly when the chain of references from the item meets a code
\* twice; a chain that ends at an item without reference or at a code that
\* is not registered is not reported.
C27_CircularIffChainRevisits ==
  (Parses(doc) /\ Called("cross_validation")) =>
    LET registry == build_global_item_registry(doc.root) IN
    \A item_code \in Range(RegistryKeys(registry)) :
      RefersToRegistered(registry, item_code) =>
        (CircularReported(registry, item_code)
           <=> Revisits(ReferenceChain(registry, item_code, Len(registry))))

\* an item is reported whose chain runs into a cycle it is not part of:
\* the chain from the item never comes back to it
C27_Witness ==
  /\ pc = "done" /\ Parses(doc) /\ Called("cross_validation")
  /\ LET registry == build_global_item_registry(doc.root) IN
     \E item_code \in Range(RegistryKeys(registry)) :
       /\ RefersToRegistered(registry, item_code)
       /\ CircularReported(registry, item_code)
       /\ Len(SelectSeq(ReferenceChain(registry, item_code, Len(registry)),
                        LAMBDA c : c = item_code)) = 1

\* a registered item refers to a registered item whose chain ends, and is
\* not reported
ChainEndsUnreported ==
  /\ pc = "done" /\ Parses(doc) /\ Called("cross_validation")
  /\ LET registry == build_global_item_registry(doc.root) IN
     \E item_code \in Range(RegistryKeys(registry)) :
       /\ RefersToRegistered(registry, item_code)
       /\ ~CircularReported(registry, item_code)
       /\ Len(ReferenceChain(registry, item_code, Len(registry))) = 3

\* the codes a walk is started from: the registered ones and one that is not
StartCodes(registry) == Range(RegistryKeys(registry)) \cup {S("X")}

ReferenceErrorAt(rule, p) ==
  \E k \in DOMAIN ErrorsOf(rule) : ErrorsOf(rule)[k].at = p

\* the codes met from the item at p: its code, then the chain from its
\* PercentageOfCode
ChainOfItem(root, registry, p) ==
  <<Strip(Get(At(root, p), "InternalCode", S("")))>>
    \o ReferenceChain(registry, TextOf(At(root, p), "PercentageOfCode"), Len(registry))

\* C29: the self-reference, cycle and Included-target checks of the
\* cross-document validator are applied to the PercentageOfCode of every
\* item, also to that of an item whose InternalCode an item of another
\* class carries as well.
C29_SharedCodeItemsAllChecked ==
  (Parses(doc) /\ Called("cross_validation")) =>
    LET registry == build_global_item_registry(doc.root) IN
    \A p \in Range(AllItems(doc.root)) :
      LET item_code == Strip(Get(At(doc.root, p), "InternalCode", S("")))
          percentage_of_code == TextOf(At(doc.root, p), "PercentageOfCode")
      IN
      (Truthy(item_code) /\ Truthy(percentage_of_code)) =>
        /\ percentage_of_code = item_code => ReferenceErrorAt("reference_no_self", p)
        /\ (percentage_of_code # item_code
              /\ percentage_of_code \in Range(RegistryKeys(registry))) =>
             /\ Revisits(ChainOfItem(doc.root, registry, p))
                  => ReferenceErrorAt("reference_no_circular", p)
             /\ RegistryChargeRequirement(registry, percentage_of_code) = S("Included")
                  => ReferenceErrorAt("reference_not_included", p)

\* the item is Included, its AmountBasis is empty, each of its amount
\* blocks has an empty Amounts and an empty Percentage, and its
\* PaymentFrequency is not a recurring one
IncludedUnpriced(item) ==
  /\ Has(item, "Characteristics")
  /\ TextOf(Find(item, "Characteristics"), "ChargeRequirement") = S("Included")
  /\ TextOf(Find(item, "Characteristics"), "PaymentFrequency").core
       \notin RECURRING_FREQUENCIES
  /\ ~Truthy(TextOf(item, "AmountBasis"))
  /\ \A b \in Range(FindAll(item, "ChargeOfferAmount")) :
       /\ ~Truthy(TextOf(item.kids[b], "Amounts"))
       /\ ~Truthy(TextOf(item.kids[b], "Percentage"))

\* C30: an Included item with empty AmountBasis, empty Amounts and
\* Percentage in every amount block and no recurring PaymentFrequency draws
\* no error from any validator of the pipeline.
C30_IncludedUnpricedDrawsNoError ==
  (pc = "done" /\ Parses(doc)) =>
    \A p \in Range(AllItems(doc.root)) :
      IncludedUnpriced(At(doc.root, p)) =>
        ~\E k \in DOMAIN result.errors :
           /\ Len(result.errors[k].at) >= Len(p)
           /\ SubSeq(result.errors[k].at, 1, Len(p)) = p

====
